---------------------------- MODULE Spec2Model ----------------------------
(***************************************************************************)
(* A model of the MQTT v5 wire codec of include/Protocol/MQTT/MQTT.hpp.    *)
(*                                                                         *)
(* Every serializable structure of the header is a record, its getSize,    *)
(* copyInto, readFrom and check methods are operators computed the way the *)
(* code computes them, and the actions of the specifications below call    *)
(* them on inputs drawn from small sets.                                   *)
(*                                                                         *)
(* Integers.  A uint32 of the code is the 32-bit integer with the same bit *)
(* pattern: 0xFFFFFFFF is -1, and a subtraction that wraps below zero      *)
(* gives the negative number that stands for the wrapped value.  The       *)
(* unsigned comparisons of the code are ULt, ULe, UGt and UGe.             *)
(*                                                                         *)
(* Memory.  A buffer handed to readFrom is a pointer and a length.  `mem`  *)
(* holds the bytes that lie in memory from the pointer on, `size` is the   *)
(* length the caller gives; the bytes of `mem` at indices >= size are what *)
(* happens to follow the buffer.  Every readFrom operator returns, beside  *)
(* the value the code returns (`ret`), the extent `hi` of its reads: one   *)
(* more than the highest index it read (0 when it read nothing).  A read   *)
(* beyond the modelled memory faults (the action records op = "fault").    *)
(***************************************************************************)
EXTENDS Integers, Sequences, FiniteSets, TLC

VARIABLES
    op,      \* the operation that produced this state
    mem,     \* the bytes in memory from the buffer pointer on
    size,    \* the buffer length given to the last call
    ret,     \* the value the last call returned
    hi,      \* the extent of the reads of the last call
    num,     \* the integer last assigned to vb
    vb,      \* a VBInt that is assigned and serialised
    vbr,     \* a VBInt that is read from a buffer
    ptype,   \* the ControlPacketType checkHeader stored through `type`
    pkt,     \* the heap of packets: <<the packet serialised, the packet read>>
    registry, \* PropertyRegistry::getInstance().unserializeFunc
    visitors \* the static visitor MMProp<T>::getInstance() returns, by value type

vars == <<op, mem, size, ret, hi, num, vb, vbr, ptype, pkt, registry, visitors>>

--------------------------------------------------------------------------
(* Integers of the code *)

\* a < b, a <= b, a > b, a >= b of two uint32
ULt(a, b) == IF (a < 0) = (b < 0) THEN a < b ELSE a >= 0

ULe(a, b) == ~ULt(b, a)

UGt(a, b) == ULt(b, a)

UGe(a, b) == ~ULt(a, b)

Max(a, b) == IF a >= b THEN a ELSE b

Byte == 0..255

\* x & 0x80 != 0
HighBit(x) == (x \div 128) % 2 = 1

\* the value of a storage the code never initialised; no operator of the
\* model computes with it
Indet == 999

--------------------------------------------------------------------------
(* LocalError *)

BadData == -1
NotEnoughData == -2
Shortcut == -3
MinErrorCode == -3

isError(value) == UGe(value, MinErrorCode)

isShortcut(value) == value = Shortcut

--------------------------------------------------------------------------
(* Memory *)

\* a local variable: v is computed once and K uses it
With(v, K(_)) == K(v)

\* buffer[i] of a buffer that starts at index 0 of mem
Read(m, i) == IF i < Len(m) THEN m[i + 1] ELSE 0

\* the n bytes from index off on
ReadN(m, off, n) == [i \in 1..n |-> Read(m, off + i - 1)]

--------------------------------------------------------------------------
(* VBInt *)

MaxSizeOn1Byte == 127
MaxSizeOn2Bytes == 16383
MaxSizeOn3Bytes == 2097151
MaxPossibleSize == 268435455

\* the storage of a VBInt before its constructor ran
VBInt_raw == [value |-> <<Indet, Indet, Indet, Indet>>, size |-> Indet]

\* VBInt::operator=(uint32) with each band starting one value early
VBInt_assign_ge(prev, other) ==
    LET pseudoLog == (IF UGe(other, MaxSizeOn1Byte) THEN 1 ELSE 0)
                   + (IF UGe(other, MaxSizeOn2Bytes) THEN 1 ELSE 0)
                   + (IF UGe(other, MaxSizeOn3Bytes) THEN 1 ELSE 0)
                   + (IF UGe(other, MaxPossibleSize) THEN 1 ELSE 0)
        v == prev.value
    IN  CASE pseudoLog = 0 ->
               [value |-> [v EXCEPT ![1] = other], size |-> 1]
          [] pseudoLog = 1 ->
               [value |-> [v EXCEPT ![2] = (other \div 128) % 256,
                                    ![1] = (other % 128) + 128],
                size |-> 2]
          [] pseudoLog = 2 ->
               [value |-> [v EXCEPT ![3] = (other \div 16384) % 256,
                                    ![2] = ((other % 16384) \div 128) + 128,
                                    ![1] = (other % 128) + 128],
                size |-> 3]
          [] pseudoLog = 3 ->
               [value |-> [v EXCEPT ![4] = (other \div 2097152) % 256,
                                    ![3] = ((other % 2097152) \div 16384) + 128,
                                    ![2] = ((other % 16384) \div 128) + 128,
                                    ![1] = (other % 128) + 128],
                size |-> 4]
          [] OTHER ->
               [value |-> <<255, 255, 255, 255>>, size |-> 0]

\* VBInt::operator=(uint32): the bytes of `prev` it does not write stay
VBInt_assign(prev, other) ==
    LET pseudoLog == (IF UGt(other, MaxSizeOn1Byte) THEN 1 ELSE 0)
                   + (IF UGt(other, MaxSizeOn2Bytes) THEN 1 ELSE 0)
                   + (IF UGt(other, MaxSizeOn3Bytes) THEN 1 ELSE 0)
                   + (IF UGt(other, MaxPossibleSize) THEN 1 ELSE 0)
        v == prev.value
    IN  CASE pseudoLog = 0 ->
               [value |-> [v EXCEPT ![1] = other], size |-> 1]
          [] pseudoLog = 1 ->
               [value |-> [v EXCEPT ![2] = (other \div 128) % 256,
                                    ![1] = (other % 128) + 128],
                size |-> 2]
          [] pseudoLog = 2 ->
               [value |-> [v EXCEPT ![3] = (other \div 16384) % 256,
                                    ![2] = ((other % 16384) \div 128) + 128,
                                    ![1] = (other % 128) + 128],
                size |-> 3]
          [] pseudoLog = 3 ->
               [value |-> [v EXCEPT ![4] = (other \div 2097152) % 256,
                                    ![3] = ((other % 2097152) \div 16384) + 128,
                                    ![2] = ((other % 16384) \div 128) + 128,
                                    ![1] = (other % 128) + 128],
                size |-> 4]
          [] OTHER ->
               [value |-> <<255, 255, 255, 255>>, size |-> 0]

\* VBInt::VBInt(uint32 value = 0)
VBInt_new(value) == VBInt_assign(VBInt_raw, value)

\* VBInt::operator uint32
VBInt_toU32(x) ==
    LET v == x.value
    IN  CASE x.size = 0 -> 0
          [] x.size = 1 -> v[1] % 128
          [] x.size = 2 -> (v[2] % 128) * 128 + (v[1] % 128)
          [] x.size = 3 -> (v[3] % 128) * 16384 + (v[2] % 128) * 128
                           + (v[1] % 128)
          [] x.size = 4 -> v[4] * 2097152 + (v[3] % 128) * 16384
                           + (v[2] % 128) * 128 + (v[1] % 128)
          [] OTHER -> 0

\* VBInt::check
VBInt_check(x) ==
    x.size > 0 /\ x.size < 5 /\ ~HighBit(x.value[x.size])

\* VBInt::getSize
VBInt_getSize(x) == x.size

\* VBInt::copyInto: the bytes written
VBInt_copyInto(x) == SubSeq(x.value, 1, x.size)

\* the loop of VBInt::readFrom from the state (v, sz) on
RECURSIVE VBInt_readLoop(_, _, _, _, _)
VBInt_readLoop(v, sz, m, off, bufLength) ==
    IF sz >= 4
    THEN [ret |-> BadData, hi |-> off + sz, vb |-> [value |-> v, size |-> sz]]
    ELSE IF UGt(sz + 1, bufLength)
    THEN [ret |-> NotEnoughData, hi |-> IF sz = 0 THEN 0 ELSE off + sz,
          vb |-> [value |-> v, size |-> sz]]
    ELSE LET b == Read(m, off + sz)
             w == [v EXCEPT ![sz + 1] = b]
         IN  IF b < 128
             THEN [ret |-> IF sz + 1 < 4 THEN sz + 1 ELSE BadData,
                   hi |-> off + sz + 1,
                   vb |-> [value |-> w, size |-> sz + 1]]
             ELSE VBInt_readLoop(w, sz + 1, m, off, bufLength)

\* VBInt::readFrom(buffer, bufLength), the buffer starting at index off
VBInt_readFrom(prev, m, off, bufLength) ==
    VBInt_readLoop(prev.value, 0, m, off, bufLength)

--------------------------------------------------------------------------
(* ControlPacketType, the fixed header and checkHeader *)

RESERVED == 0
CONNECT == 1
CONNACK == 2
PUBLISH == 3
PUBACK == 4
PUBREC == 5
PUBREL == 6
PUBCOMP == 7
SUBSCRIBE == 8
SUBACK == 9
UNSUBSCRIBE == 10
UNSUBACK == 11
PINGREQ == 12
PINGRESP == 13
DISCONNECT == 14
AUTH == 15

\* the `flags` parameter of the FixedHeaderType typedef of each packet type
HeaderFlags(type) == IF type \in {PUBREL, SUBSCRIBE, UNSUBSCRIBE} THEN 2 ELSE 0

\* FixedHeaderType<type, flags>::FixedHeaderType()
FixedHeaderType_new(type) == type * 16 + HeaderFlags(type)

\* FixedHeaderType<type, flags>::check();
\* FixedHeaderType<PUBLISH, 0>::check() is true
FixedHeaderType_check(type, typeAndFlags) ==
    type = PUBLISH \/ typeAndFlags % 16 = HeaderFlags(type)

\* a ^ b != 0 of two nibbles
XorNonZero(a, b) == a # b

\* the array expectedFlags of checkHeader, indexed from 0
expectedFlags == <<15, 0, 15, 0, 0, 2, 0, 2, 0, 2, 0, 0, 0, 0, 0, 0>>

\* checkHeader(buffer, size, type): `prevType` is what *type held
checkHeader(m, bufSize, prevType) ==
    IF bufSize < 2
    THEN [ret |-> NotEnoughData, hi |-> 0, type |-> prevType]
    ELSE LET first == Read(m, 0)
         IN  IF first \div 16 # PUBLISH
                /\ XorNonZero(first % 16, expectedFlags[(first \div 16) + 1])
             THEN [ret |-> BadData, hi |-> 1, type |-> prevType]
             ELSE LET r == VBInt_readFrom(VBInt_new(0), m, 1, bufSize - 1)
                  IN  IF isError(r.ret)
                      THEN [ret |-> r.ret, hi |-> Max(1, r.hi),
                            type |-> first \div 16]
                      ELSE [ret |-> VBInt_toU32(r.vb) + r.ret + 1,
                            hi |-> Max(1, r.hi), type |-> first \div 16]

--------------------------------------------------------------------------
(* Integers in network order *)

\* memcpy of a uint16 into the buffer with no BigEndian
BE16_hostOrder(v) == <<v % 256, (v \div 256) % 256>>

\* BigEndian(uint16) and memcpy into the buffer
BE16(v) == <<(v \div 256) % 256, v % 256>>

\* memcpy of 2 bytes from the buffer and BigEndian(uint16)
FromBE16(m, off) == Read(m, off) * 256 + Read(m, off + 1)

\* BigEndian(uint32) and memcpy into the buffer
BE32(v) ==
    <<(v \div 16777216) % 256, (v \div 65536) % 256, (v \div 256) % 256,
      v % 256>>

\* memcpy of 4 bytes from the buffer and BigEndian(uint32)
FromBE32(m, off) ==
    LET b0 == Read(m, off)
    IN  (IF b0 >= 128 THEN b0 - 256 ELSE b0) * 16777216
        + Read(m, off + 1) * 65536 + Read(m, off + 2) * 256 + Read(m, off + 3)

--------------------------------------------------------------------------
(* DynamicString and DynamicBinaryData: a length and the heap block `data` *)

\* DynamicString(), DynamicBinaryData()
DynamicString_new == [length |-> 0, data |-> <<>>]

\* DynamicString(text), DynamicBinaryData(length, block)
DynamicString_from(bytes) == [length |-> Len(bytes), data |-> bytes]

DynamicString_getSize(x) == x.length + 2

\* the bytes copyInto writes: memcpy(buffer + 2, data, length)
DynamicString_copyInto(x) ==
    BE16(x.length)
    \o [i \in 1..x.length |-> IF i <= Len(x.data) THEN x.data[i] ELSE Indet]

\* readFrom: `length` is assigned before the second test
DynamicString_readFrom(prev, m, off, bufLength) ==
    IF ULt(bufLength, 2)
    THEN [ret |-> NotEnoughData, hi |-> 0, v |-> prev]
    ELSE LET len == FromBE16(m, off)
         IN  IF UGt(len + 2, bufLength)
             THEN [ret |-> NotEnoughData, hi |-> off + 2,
                   v |-> [prev EXCEPT !.length = len]]
             ELSE [ret |-> len + 2, hi |-> off + 2 + len,
                   v |-> [length |-> len, data |-> ReadN(m, off + 2, len)]]

\* DynamicStringPair(k, v)
DynamicStringPair_new == [key |-> DynamicString_new, value |-> DynamicString_new]

DynamicStringPair_getSize(x) ==
    DynamicString_getSize(x.key) + DynamicString_getSize(x.value)

DynamicStringPair_copyInto(x) ==
    DynamicString_copyInto(x.key) \o DynamicString_copyInto(x.value)

DynamicStringPair_readFrom(prev, m, off, bufLength) ==
    With(DynamicString_readFrom(prev.key, m, off, bufLength), LAMBDA k :
      IF isError(k.ret)
      THEN [ret |-> k.ret, hi |-> k.hi, v |-> [prev EXCEPT !.key = k.v]]
      ELSE With(DynamicString_readFrom(prev.value, m, off + k.ret,
                                       bufLength - k.ret), LAMBDA w :
             [ret |-> IF isError(w.ret) THEN w.ret ELSE w.ret + k.ret,
              hi |-> Max(k.hi, w.hi),
              v |-> [key |-> k.v, value |-> w.v]]))

--------------------------------------------------------------------------
(* Properties *)

PayloadFormat == 1
MessageExpiryInterval == 2
ContentType == 3
SubscriptionID == 11
UserProperty == 38
MaxUsedPropertyType == 43

\* the value type T of the TypedProperty<type, T> typedefs ("none": no typedef)
TypedPropertyKind(type) ==
    CASE type \in {1, 23, 25, 36, 37, 40, 41, 42} -> "u8"
      [] type \in {19, 33, 34, 35} -> "u16"
      [] type \in {2, 17, 24, 39} -> "u32"
      [] type \in {3, 8, 18, 21, 26, 28, 31} -> "str"
      [] type \in {9, 22} -> "bin"
      [] type = 11 -> "vb"
      [] type = 38 -> "pair"
      [] OTHER -> "none"

\* PropertyRegistry::unserializeFunc of the static registry before any
\* registerProperty
PropertyRegistry_new == [t \in 0..(MaxUsedPropertyType - 1) |-> "none"]

\* registerAllProperties()
registerAllProperties(reg) ==
    [t \in 0..(MaxUsedPropertyType - 1) |-> TypedPropertyKind(t)]

\* T() of a property value
PropertyValue_new(kind) ==
    CASE kind \in {"str", "bin"} -> DynamicString_new
      [] kind = "pair" -> DynamicStringPair_new
      [] kind = "vb" -> VBInt_new(0)
      [] OTHER -> 0

\* TypedProperty<type, T>::allocateProp
allocateProp(type, kind) ==
    [type |-> type, kind |-> kind, value |-> PropertyValue_new(kind)]

\* TypedProperty<type, T>::TypedProperty(value)
TypedProperty(type, value) ==
    [type |-> type, kind |-> TypedPropertyKind(type), value |-> value]

\* sizeof(T) of Property<T> for uint8, uint16, uint32
PODSize(kind) == CASE kind = "u8" -> 1 [] kind = "u16" -> 2 [] OTHER -> 4

\* Property<T>::getSize
Property_getSize(x) ==
    CASE x.kind \in {"u8", "u16", "u32"} -> 1 + PODSize(x.kind)
      [] x.kind \in {"str", "bin"} -> 1 + DynamicString_getSize(x.value)
      [] x.kind = "pair" -> 1 + DynamicStringPair_getSize(x.value)
      [] OTHER -> 1 + VBInt_getSize(x.value)

\* Property<T>::copyInto: the bytes written
Property_copyInto(x) ==
    <<x.type>> \o
    CASE x.kind = "u8" -> <<x.value % 256>>
      [] x.kind = "u16" -> BE16(x.value)
      [] x.kind = "u32" -> BE32(x.value)
      [] x.kind \in {"str", "bin"} -> DynamicString_copyInto(x.value)
      [] x.kind = "pair" -> DynamicStringPair_copyInto(x.value)
      [] OTHER -> VBInt_copyInto(x.value)

\* the least bufLength Property<T>::readFrom asks for before it reads the value
PropertyMinLength(kind) ==
    CASE kind \in {"u8", "u16", "u32"} -> PODSize(kind) + 1
      [] kind \in {"str", "bin"} -> 3
      [] kind = "pair" -> 5
      [] OTHER -> 2

\* Property<T>::readFrom
Property_readFrom(prev, m, off, bufLength) ==
    IF HighBit(Read(m, off)) \/ Read(m, off) # prev.type
    THEN [ret |-> BadData, hi |-> off + 1, v |-> prev]
    ELSE IF ULt(bufLength, PropertyMinLength(prev.kind))
    THEN [ret |-> NotEnoughData, hi |-> off + 1, v |-> prev]
    ELSE IF prev.kind \in {"u8", "u16", "u32"}
    THEN LET n == PODSize(prev.kind)
             val == CASE n = 1 -> Read(m, off + 1)
                      [] n = 2 -> FromBE16(m, off + 1)
                      [] OTHER -> FromBE32(m, off + 1)
         IN  [ret |-> n + 1, hi |-> off + 1 + n,
              v |-> [prev EXCEPT !.value = val]]
    ELSE With(CASE prev.kind \in {"str", "bin"} ->
                     DynamicString_readFrom(prev.value, m, off + 1,
                                            bufLength - 1)
                [] prev.kind = "pair" ->
                     DynamicStringPair_readFrom(prev.value, m, off + 1,
                                                bufLength - 1)
                [] OTHER ->
                     With(VBInt_readFrom(prev.value, m, off + 1, bufLength - 1),
                          LAMBDA q : [ret |-> q.ret, hi |-> q.hi, v |-> q.vb]),
              LAMBDA r :
                [ret |-> IF isError(r.ret) THEN r.ret ELSE r.ret + 1,
                 hi |-> Max(off + 1, r.hi),
                 v |-> [prev EXCEPT !.value = r.v]])

\* PropertyRegistry::unserialize; `output` is set when a property was made
PropertyRegistry_unserialize(reg, m, off, bufLength) ==
    IF ULt(bufLength, 1)
    THEN [ret |-> NotEnoughData, hi |-> 0, made |-> FALSE]
    ELSE LET type == Read(m, off)
         IN  IF type >= MaxUsedPropertyType \/ reg[type] = "none"
             THEN [ret |-> BadData, hi |-> off + 1, made |-> FALSE]
             ELSE With(Property_readFrom(allocateProp(type, reg[type]),
                                         m, off, bufLength), LAMBDA r :
                    [ret |-> r.ret, hi |-> r.hi, made |-> TRUE,
                     output |-> r.v])

\* Properties::Properties()
Properties_new == [length |-> VBInt_new(0), head |-> <<>>]

\* a getSize that leaves out the size of the length prefix
Properties_getSize_noPrefix(x) == VBInt_toU32(x.length)

\* Properties::getSize
Properties_getSize(x) == VBInt_getSize(x.length) + VBInt_toU32(x.length)

RECURSIVE ConcatAll(_)
ConcatAll(ss) == IF ss = <<>> THEN <<>> ELSE Head(ss) \o ConcatAll(Tail(ss))

\* Properties::copyInto: the bytes written
Properties_copyInto(x) ==
    VBInt_copyInto(x.length)
    \o ConcatAll([i \in 1..Len(x.head) |-> Property_copyInto(x.head[i])])

\* the loop of Properties::readFrom
RECURSIVE Properties_readLoop(_, _, _, _, _, _, _, _)
Properties_readLoop(reg, m, off, cumSize, o, h, len, head) ==
    IF cumSize = 0
    THEN [ret |-> o, hi |-> h, v |-> [length |-> len, head |-> head]]
    ELSE With(PropertyRegistry_unserialize(reg, m, off, cumSize), LAMBDA s :
           IF isError(s.ret)
           THEN [ret |-> s.ret, hi |-> Max(h, s.hi),
                 v |-> [length |-> len, head |-> head]]
           ELSE Properties_readLoop(reg, m, off + s.ret, cumSize - s.ret,
                                    o + s.ret, Max(h, s.hi), len,
                                    Append(head, s.output)))

\* Properties::readFrom
Properties_readFrom(prev, reg, m, off, bufLength) ==
    With(VBInt_readFrom(prev.length, m, off, bufLength), LAMBDA r :
      IF isError(r.ret)
      THEN [ret |-> r.ret, hi |-> r.hi, v |-> [prev EXCEPT !.length = r.vb]]
      ELSE IF UGt(VBInt_toU32(r.vb), bufLength - VBInt_getSize(r.vb))
      THEN [ret |-> NotEnoughData, hi |-> r.hi,
            v |-> [prev EXCEPT !.length = r.vb]]
      ELSE Properties_readLoop(reg, m, off + r.ret, VBInt_toU32(r.vb),
                               r.ret, r.hi, r.vb, <<>>))

\* Properties::append: the list after the call (unchanged when it refuses)
Properties_append(x, property) ==
    LET l == VBInt_new(VBInt_toU32(x.length) + Property_getSize(property))
    IN  IF ~VBInt_check(l) THEN x
        ELSE [length |-> l, head |-> Append(x.head, property)]

\* Properties::Properties(firstProperty)
Properties_from(firstProperty) ==
    [length |-> VBInt_new(Property_getSize(firstProperty)),
     head |-> <<firstProperty>>]

\* Properties::swap: the two lists after the call
Properties_swap(x, other) ==
    <<[length |-> VBInt_assign(x.length, VBInt_toU32(other.length)),
       head |-> other.head],
      [length |-> VBInt_assign(other.length, VBInt_toU32(x.length)),
       head |-> x.head]>>

\* Properties::Properties(const Properties &): m is a reference to head, so
\* `m = n->clone()` stores the clone in head and `m = m->next` stores the
\* clone's null next in head again
Properties_copy(other) == [length |-> other.length, head |-> <<>>]

\* ExpectedProperty<type>::AllowedMask: bit 0 stands for the Will message
AllowedMask(type) ==
    CASE type \in {1, 2, 3, 8, 9} -> 2^PUBLISH + 1
      [] type = 35 -> 2^PUBLISH
      [] type = 24 -> 1
      [] type = 11 -> 2^PUBLISH + 2^SUBSCRIBE
      [] type = 17 -> 2^CONNECT + 2^CONNACK + 2^DISCONNECT
      [] type \in {21, 22} -> 2^CONNECT + 2^CONNACK + 2^AUTH
      [] type \in {33, 34, 39} -> 2^CONNECT + 2^CONNACK
      [] type \in {23, 25} -> 2^CONNECT
      [] type \in {18, 19, 36, 37, 40, 41, 42, 26} -> 2^CONNACK
      [] type = 28 -> 2^CONNACK + 2^DISCONNECT
      [] type = 31 -> 2^CONNACK + 2^PUBACK + 2^PUBREC + 2^PUBREL + 2^PUBCOMP
                      + 2^SUBACK + 2^UNSUBACK + 2^DISCONNECT + 2^AUTH
      [] type = 38 -> 65535
      [] OTHER -> 0

\* isAllowedProperty(type, ctype): the uint16 table is indexed by type - 1
isAllowedProperty(type, ctype) ==
    IF type = 0 \/ type >= MaxUsedPropertyType THEN FALSE
    ELSE ((AllowedMask(type) % 65536) \div 2^ctype) % 2 = 1

\* DynamicString::check and DynamicBinaryData::check; null: data is null
DynamicString_check(x, null) ==
    IF null THEN x.length = 0 ELSE x.length # 0

\* whether data of a string is null: a string that holds bytes has a buffer,
\* and nullAlloc tells that the allocation of 0 bytes gave a null pointer
DataIsNull(x, nullAlloc) == x.length = 0 /\ nullAlloc

\* Property<T>::check
Property_check(x, nullAlloc) ==
    /\ x.type < 128
    /\ CASE x.kind \in {"str", "bin"} ->
                DynamicString_check(x.value, DataIsNull(x.value, nullAlloc))
         [] x.kind = "pair" ->
                /\ DynamicString_check(x.value.key,
                                       DataIsNull(x.value.key, nullAlloc))
                /\ DynamicString_check(x.value.value,
                                       DataIsNull(x.value.value, nullAlloc))
         [] x.kind = "vb" -> VBInt_check(x.value)
         [] OTHER -> TRUE

\* PropertyListNode::check of the first node: the loop runs while (u->next)
PropertyListNode_check(head, nullAlloc) ==
    \A i \in 1..(Len(head) - 1) : Property_check(head[i], nullAlloc)

\* Properties::check: (length.check() && head) ? head->check() : true
Properties_check(x, nullAlloc) ==
    IF VBInt_check(x.length) /\ x.head # <<>>
    THEN PropertyListNode_check(x.head, nullAlloc)
    ELSE TRUE

\* Properties::checkPropertiesFor with a loop that stops at the last node
Properties_checkPropertiesFor_butLast(x, type, nullAlloc) ==
    /\ Properties_check(x, nullAlloc)
    /\ \A i \in 1..(Len(x.head) - 1) : isAllowedProperty(x.head[i].type, type)

\* Properties::checkPropertiesFor
Properties_checkPropertiesFor(x, type, nullAlloc) ==
    /\ Properties_check(x, nullAlloc)
    /\ \A i \in 1..Len(x.head) : isAllowedProperty(x.head[i].type, type)

\* a null pointer
NullPtr == 0

\* MemMappedPropertyRegistry::getVisitorForProperty: the value type of the
\* visitor ("none": null); properties[invPropertyMap[t]] has the value type
\* of the TypedProperty typedef of t
getVisitorForProperty(propertyType) ==
    IF propertyType >= MaxUsedPropertyType THEN "none"
    ELSE TypedPropertyKind(propertyType)

\* MappedVBInt::acceptBuffer: the count of the bytes up to the first one
\* below 0x80, at most 4 and at most bufLength
RECURSIVE MappedVBInt_size(_, _, _, _)
MappedVBInt_size(m, off, bufLength, sz) ==
    IF ~(sz < 4 /\ sz < bufLength) THEN sz
    ELSE IF Read(m, off + sz) < 128 THEN sz + 1
    ELSE MappedVBInt_size(m, off, bufLength, sz + 1)

\* DynamicStringView::readFrom and DynamicBinDataView::readFrom: the result
DynamicStringView_readFrom(m, off, bufLength) ==
    IF bufLength < 2 THEN NotEnoughData
    ELSE IF FromBE16(m, off) + 2 > bufLength THEN NotEnoughData
    ELSE FromBE16(m, off) + 2

\* MemMappedVisitor::acceptBuffer of the visitor of a value type: the result
acceptBuffer(kind, m, off, bufLength) ==
    CASE kind \in {"u8", "u16", "u32"} ->
            IF bufLength < PODSize(kind) THEN NotEnoughData ELSE PODSize(kind)
      [] kind \in {"str", "bin"} -> DynamicStringView_readFrom(m, off, bufLength)
      [] kind = "pair" ->
            With(DynamicStringView_readFrom(m, off, bufLength), LAMBDA o :
              IF isError(o) THEN o
              ELSE With(DynamicStringView_readFrom(m, off + o, bufLength - o),
                        LAMBDA w : IF isError(w) THEN w ELSE w + o))
      [] OTHER ->
            IF MappedVBInt_size(m, off, bufLength, 0) = 0 THEN BadData
            ELSE MappedVBInt_size(m, off, bufLength, 0)

\* DynamicStringView and DynamicBinDataView: length, and data as an offset
\* in the memory
DynamicStringView_new == [length |-> 0, data |-> NullPtr]

\* the visitor instances when the program starts: MMProp<T>::getInstance()
\* holds one static T for each visitor type, whatever the caller
MMProp_new ==
    [kind \in {"u8", "u16", "u32", "str", "bin", "pair", "vb"} |->
        CASE kind \in {"str", "bin"} -> DynamicStringView_new
          [] kind = "pair" -> [key |-> DynamicStringView_new,
                               value |-> DynamicStringView_new]
          [] OTHER -> 0]

\* DynamicStringView::readFrom: the object after the call
DynamicStringView_read(prev, m, off, bufLength) ==
    IF bufLength < 2 THEN prev
    ELSE IF FromBE16(m, off) + 2 > bufLength
    THEN [prev EXCEPT !.length = FromBE16(m, off)]
    ELSE [length |-> FromBE16(m, off), data |-> off + 2]

\* MappedVBInt::acceptBuffer: the value o after the call
MappedVBInt_value(m, off, bufLength) ==
    With(MappedVBInt_size(m, off, bufLength, 0), LAMBDA sz :
        (IF sz >= 4 THEN Read(m, off + 3) * 2097152 ELSE 0)
      + (IF sz >= 3 THEN (Read(m, off + 2) % 128) * 16384 ELSE 0)
      + (IF sz >= 2 THEN (Read(m, off + 1) % 128) * 128 ELSE 0)
      + (IF sz >= 1 THEN Read(m, off) % 128 ELSE 0))

\* MemMappedVisitor::acceptBuffer of the visitor of a value type: what
\* getValue() gives after the call, prev being what it gave before
acceptValue(kind, prev, m, off, bufLength) ==
    CASE kind \in {"u8", "u16", "u32"} ->
            IF bufLength < PODSize(kind) THEN prev
            ELSE IF kind = "u8" THEN Read(m, off)
            ELSE IF kind = "u16" THEN FromBE16(m, off)
            ELSE FromBE32(m, off)
      [] kind \in {"str", "bin"} -> DynamicStringView_read(prev, m, off, bufLength)
      [] kind = "pair" ->
            With(DynamicStringView_readFrom(m, off, bufLength), LAMBDA o :
              IF isError(o)
              THEN [prev EXCEPT !.key =
                        DynamicStringView_read(prev.key, m, off, bufLength)]
              ELSE [key |-> DynamicStringView_read(prev.key, m, off, bufLength),
                    value |-> DynamicStringView_read(prev.value, m, off + o,
                                                     bufLength - o)])
      [] OTHER -> MappedVBInt_value(m, off, bufLength)

\* PropertiesView::PropertiesView(); buffer is an offset in the memory
PropertiesView_new == [length |-> VBInt_new(0), buffer |-> NullPtr]

\* PropertiesView::readFrom
PropertiesView_readFrom(prev, m, off, bufLength) ==
    With(VBInt_readFrom(prev.length, m, off, bufLength), LAMBDA l :
      IF isError(l.ret)
      THEN [ret |-> l.ret, hi |-> l.hi, v |-> [prev EXCEPT !.length = l.vb]]
      ELSE IF UGt(VBInt_toU32(l.vb), bufLength - VBInt_getSize(l.vb))
      THEN [ret |-> NotEnoughData, hi |-> l.hi,
            v |-> [prev EXCEPT !.length = l.vb]]
      ELSE [ret |-> l.ret + VBInt_toU32(l.vb), hi |-> l.hi,
            v |-> [length |-> l.vb, buffer |-> off + l.ret]])

\* PropertiesView::getProperty(type, offset) that moves offset by the size
\* of the value alone, without the tag byte
PropertiesView_getProperty_noTag(x, m, offset) ==
    IF UGe(offset, VBInt_toU32(x.length)) \/ x.buffer = NullPtr
    THEN [visitor |-> FALSE, type |-> 0, offset |-> offset]
    ELSE With(Read(m, x.buffer + offset), LAMBDA t :
      IF getVisitorForProperty(t) = "none"
      THEN [visitor |-> FALSE, type |-> 0, offset |-> offset]
      ELSE With(acceptBuffer(getVisitorForProperty(t), m,
                             x.buffer + offset + 1,
                             VBInt_toU32(x.length) - offset - 1), LAMBDA r :
        IF isError(r)
        THEN [visitor |-> FALSE, type |-> t, offset |-> offset]
        ELSE [visitor |-> TRUE, type |-> t, offset |-> offset + r]))

\* PropertiesView::getProperty(type, offset): whether a visitor is returned,
\* and type and offset on output
PropertiesView_getProperty(x, m, offset) ==
    IF UGe(offset, VBInt_toU32(x.length)) \/ x.buffer = NullPtr
    THEN [visitor |-> FALSE, type |-> 0, offset |-> offset]
    ELSE With(Read(m, x.buffer + offset), LAMBDA t :
      IF getVisitorForProperty(t) = "none"
      THEN [visitor |-> FALSE, type |-> 0, offset |-> offset]
      ELSE With(acceptBuffer(getVisitorForProperty(t), m,
                             x.buffer + offset + 1,
                             VBInt_toU32(x.length) - offset - 1), LAMBDA r :
        IF isError(r)
        THEN [visitor |-> FALSE, type |-> t, offset |-> offset]
        ELSE [visitor |-> TRUE, type |-> t, offset |-> offset + r + 1]))

\* the loop of PropertiesView::checkPropertiesFor from the offset o on: the
\* result and o at the return
RECURSIVE PropertiesView_checkLoop(_, _, _, _)
\* the static visitors after PropertiesView::getProperty(type, offset): the
\* visitor of the tag accepted the bytes, whether it succeeded or not
PropertiesView_visited(x, m, offset, vis) ==
    IF UGe(offset, VBInt_toU32(x.length)) \/ x.buffer = NullPtr THEN vis
    ELSE With(getVisitorForProperty(Read(m, x.buffer + offset)), LAMBDA k :
      IF k = "none" THEN vis
      ELSE [vis EXCEPT ![k] = acceptValue(k, vis[k], m, x.buffer + offset + 1,
                                  VBInt_toU32(x.length) - offset - 1)])

\* MemMappedVisitor::acceptBuffer of the visitor of a value type: the count
\* of the bytes from buffer on that it reads or, for a string it accepts,
\* points at
acceptExtent(kind, m, off, bufLength) ==
    CASE kind \in {"u8", "u16", "u32"} ->
            IF bufLength < PODSize(kind) THEN 0 ELSE PODSize(kind)
      [] kind \in {"str", "bin"} ->
            IF bufLength < 2 THEN 0
            ELSE IF isError(DynamicStringView_readFrom(m, off, bufLength))
            THEN 2 ELSE DynamicStringView_readFrom(m, off, bufLength)
      [] kind = "pair" ->
            With(DynamicStringView_readFrom(m, off, bufLength), LAMBDA o :
              IF isError(o) THEN (IF bufLength < 2 THEN 0 ELSE 2)
              ELSE With(DynamicStringView_readFrom(m, off + o, bufLength - o),
                        LAMBDA w :
                     IF isError(w) THEN (IF bufLength - o < 2 THEN o ELSE o + 2)
                     ELSE o + w))
      [] OTHER -> MappedVBInt_size(m, off, bufLength, 0)

\* PropertiesView::getProperty(type, offset): the extent of its reads, one
\* more than the highest index of the memory it read (0: it read nothing)
PropertiesView_readExtent(x, m, offset) ==
    IF UGe(offset, VBInt_toU32(x.length)) \/ x.buffer = NullPtr THEN 0
    ELSE With(getVisitorForProperty(Read(m, x.buffer + offset)), LAMBDA k :
      IF k = "none" THEN x.buffer + offset + 1
      ELSE x.buffer + offset + 1
           + acceptExtent(k, m, x.buffer + offset + 1,
                          VBInt_toU32(x.length) - offset - 1))

PropertiesView_checkLoop(x, m, type, o) ==
    With(PropertiesView_getProperty(x, m, o), LAMBDA g :
      IF ~g.visitor THEN [ok |-> TRUE, o |-> g.offset]
      ELSE IF ~isAllowedProperty(g.type, type) THEN [ok |-> FALSE, o |-> g.offset]
      ELSE PropertiesView_checkLoop(x, m, type, g.offset))

\* PropertiesView::checkPropertiesFor
PropertiesView_checkPropertiesFor(x, m, type) ==
    IF ~VBInt_check(x.length) THEN [ok |-> FALSE, o |-> 0]
    ELSE PropertiesView_checkLoop(x, m, type, 0)

--------------------------------------------------------------------------
(* FixedField<type>: the fixed part of the variable header *)

\* which FixedField a packet type has
FixedFieldKind(type) ==
    CASE type = CONNECT -> "connect"
      [] type = CONNACK -> "connack"
      [] type = PUBLISH -> "publish"
      [] type \in {SUBSCRIBE, SUBACK, UNSUBSCRIBE, UNSUBACK} -> "id"
      [] type \in {PUBACK, PUBREC, PUBREL, PUBCOMP} -> "idreason"
      [] type = DISCONNECT -> "disconnect"
      [] type = AUTH -> "auth"
      [] OTHER -> "none"

\* FixedField<CONNECT>::expectedProtocolName
expectedProtocolName == <<0, 4, 77, 81, 84, 84>>

\* the constructors; packetID of FixedField<PUBLISH> is not initialised
FixedField_new(type) ==
    CASE type = CONNECT ->
           [protocolName |-> expectedProtocolName, protocolVersion |-> 5,
            flags |-> 0, keepAlive |-> 0]
      [] type = CONNACK -> [acknowledgeFlag |-> 0, reasonCode |-> 0]
      [] type = PUBLISH ->
           [topicName |-> DynamicString_new, packetID |-> Indet,
            flags |-> NullPtr]
      [] FixedFieldKind(type) = "id" -> [packetID |-> 0, remLength |-> 2]
      [] FixedFieldKind(type) = "idreason" ->
           [packetID |-> 0, reasonCode |-> 0, remLength |-> 3]
      [] OTHER -> [reasonCode |-> 0, remLength |-> 1]

\* setRemainingLength
FixedField_setRemainingLength(type, x, length) ==
    IF FixedFieldKind(type) \in {"id", "idreason", "disconnect", "auth"}
    THEN [x EXCEPT !.remLength = length]
    ELSE x

\* a hasPacketID that looks at the header byte of the first packet of the
\* heap instead of the packet's own
hasPacketID_first(x, h) ==
    x.flags # NullPtr /\ (h[1].header.typeAndFlags % 8) \div 2 > 0

\* FixedField<PUBLISH>::hasPacketID: flags points at the header byte of the
\* packet h[x.flags]
hasPacketID(x, h) ==
    x.flags # NullPtr /\ (h[x.flags].header.typeAndFlags % 8) \div 2 > 0

\* getSize; h holds the packets a pointer can point into
FixedField_getSize(type, x, h) ==
    CASE type = CONNECT -> 10
      [] type = CONNACK -> 2
      [] type = PUBLISH ->
           DynamicString_getSize(x.topicName) + (IF hasPacketID(x, h) THEN 2 ELSE 0)
      [] FixedFieldKind(type) = "id" -> 2
      [] FixedFieldKind(type) = "idreason" -> 3
      [] OTHER -> 1

\* copyInto: the bytes written
FixedField_copyInto(type, x, h) ==
    CASE type = CONNECT ->
           x.protocolName \o <<x.protocolVersion, x.flags>> \o BE16(x.keepAlive)
      [] type = CONNACK -> <<x.acknowledgeFlag, x.reasonCode>>
      [] type = PUBLISH ->
           DynamicString_copyInto(x.topicName)
           \o (IF hasPacketID(x, h) THEN BE16(x.packetID) ELSE <<>>)
      [] FixedFieldKind(type) = "id" -> BE16(x.packetID)
      [] FixedFieldKind(type) = "idreason" -> BE16(x.packetID) \o <<x.reasonCode>>
      [] OTHER -> <<x.reasonCode>>

\* MemoryMapped<FixedField<CONNECT>>::readFrom
FixedFieldCONNECT_readFrom(prev, m, off, bufLength) ==
    IF ULt(bufLength, 10)
    THEN [ret |-> NotEnoughData, hi |-> 0, v |-> prev]
    ELSE [ret |-> 10, hi |-> off + 10,
          v |-> [protocolName |-> ReadN(m, off, 6),
                 protocolVersion |-> Read(m, off + 6),
                 flags |-> Read(m, off + 7),
                 keepAlive |-> FromBE16(m, off + 8)]]

\* MemoryMapped<FixedField<CONNACK>>::readFrom
FixedFieldCONNACK_readFrom(prev, m, off, bufLength) ==
    IF ULt(bufLength, 2)
    THEN [ret |-> NotEnoughData, hi |-> 0, v |-> prev]
    ELSE [ret |-> 2, hi |-> off + 2,
          v |-> [acknowledgeFlag |-> Read(m, off),
                 reasonCode |-> Read(m, off + 1)]]

\* FixedField<PUBLISH>::readFrom
FixedFieldPUBLISH_readFrom(prev, h, m, off, bufLength) ==
    With(DynamicString_readFrom(prev.topicName, m, off, bufLength), LAMBDA t :
      LET x == [prev EXCEPT !.topicName = t.v]
      IN  IF isError(t.ret) THEN [ret |-> t.ret, hi |-> t.hi, v |-> x]
          ELSE IF ~hasPacketID(x, h) THEN [ret |-> t.ret, hi |-> t.hi, v |-> x]
          ELSE IF ULt(bufLength - t.ret, 2)
          THEN [ret |-> NotEnoughData, hi |-> t.hi, v |-> x]
          ELSE [ret |-> t.ret + 2, hi |-> off + t.ret + 2,
                v |-> [x EXCEPT !.packetID = FromBE16(m, off + t.ret)]])

\* FixedFieldWithID::readFrom
FixedFieldWithID_readFrom(prev, m, off, bufLength) ==
    IF ULt(bufLength, 2)
    THEN [ret |-> NotEnoughData, hi |-> 0, v |-> prev]
    ELSE [ret |-> IF prev.remLength = 2 THEN Shortcut ELSE 2, hi |-> off + 2,
          v |-> [prev EXCEPT !.packetID = FromBE16(m, off)]]

\* FixedFieldWithIDAndReason::readFrom
FixedFieldWithIDAndReason_readFrom(prev, m, off, bufLength) ==
    IF ULt(bufLength, 2)
    THEN [ret |-> NotEnoughData, hi |-> 0, v |-> prev]
    ELSE LET x == [prev EXCEPT !.packetID = FromBE16(m, off)]
         IN  IF prev.remLength = 2
             THEN [ret |-> Shortcut, hi |-> off + 2, v |-> x]
             ELSE [ret |-> IF prev.remLength = 3 THEN Shortcut ELSE 3,
                   hi |-> off + 3,
                   v |-> [x EXCEPT !.reasonCode = Read(m, off + 2)]]

\* FixedField<DISCONNECT>::readFrom, FixedField<AUTH>::readFrom
FixedFieldDISCONNECT_readFrom(type, prev, m, off, bufLength) ==
    IF prev.remLength = 0
    THEN [ret |-> Shortcut, hi |-> 0, v |-> [prev EXCEPT !.reasonCode = 0]]
    ELSE [ret |-> IF type = DISCONNECT /\ prev.remLength = 1
                  THEN Shortcut ELSE 1,
          hi |-> off + 2,
          v |-> [prev EXCEPT !.reasonCode = Read(m, off + 1)]]

\* fixedVariableHeader.readFrom of a packet of the given type
FixedField_readFrom(type, prev, h, m, off, bufLength) ==
    CASE type = CONNECT -> FixedFieldCONNECT_readFrom(prev, m, off, bufLength)
      [] type = CONNACK -> FixedFieldCONNACK_readFrom(prev, m, off, bufLength)
      [] type = PUBLISH ->
           FixedFieldPUBLISH_readFrom(prev, h, m, off, bufLength)
      [] FixedFieldKind(type) = "id" ->
           FixedFieldWithID_readFrom(prev, m, off, bufLength)
      [] FixedFieldKind(type) = "idreason" ->
           FixedFieldWithIDAndReason_readFrom(prev, m, off, bufLength)
      [] OTHER -> FixedFieldDISCONNECT_readFrom(type, prev, m, off, bufLength)

--------------------------------------------------------------------------
(* Payloads *)

\* WillMessage()
WillMessage_new ==
    [willProperties |-> Properties_new, willTopic |-> DynamicString_new,
     willPayload |-> DynamicString_new]

WillMessage_getSize(x) ==
    Properties_getSize(x.willProperties) + DynamicString_getSize(x.willTopic)
    + DynamicString_getSize(x.willPayload)

WillMessage_copyInto(x) ==
    Properties_copyInto(x.willProperties) \o DynamicString_copyInto(x.willTopic)
    \o DynamicString_copyInto(x.willPayload)

\* WillMessage::check; the data of willTopic and of willPayload is null when
\* topicNull and payloadNull hold
WillMessage_check(x, topicNull, payloadNull, nullAlloc) ==
    /\ Properties_check(x.willProperties, nullAlloc)
    /\ \A i \in 1..Len(x.willProperties.head) :
            isAllowedProperty(x.willProperties.head[i].type, 0)
    /\ DynamicString_check(x.willTopic, topicNull)
    /\ DynamicString_check(x.willPayload, payloadNull)

\* WillMessage::readFrom
WillMessage_readFrom(prev, reg, m, off, bufLength) ==
    With(Properties_readFrom(prev.willProperties, reg, m, off, bufLength),
         LAMBDA p :
      IF isError(p.ret)
      THEN [ret |-> p.ret, hi |-> p.hi,
            v |-> [prev EXCEPT !.willProperties = p.v]]
      ELSE
      With(DynamicString_readFrom(prev.willTopic, m, off + p.ret,
                                  bufLength - p.ret), LAMBDA t :
        IF isError(t.ret)
        THEN [ret |-> t.ret, hi |-> Max(p.hi, t.hi),
              v |-> [prev EXCEPT !.willProperties = p.v, !.willTopic = t.v]]
        ELSE
        With(DynamicString_readFrom(prev.willPayload, m, off + p.ret + t.ret,
                                    bufLength - p.ret - t.ret), LAMBDA d :
          [ret |-> IF isError(d.ret) THEN d.ret ELSE p.ret + t.ret + d.ret,
           hi |-> Max(Max(p.hi, t.hi), d.hi),
           v |-> [willProperties |-> p.v, willTopic |-> t.v,
                  willPayload |-> d.v]])))

\* which Payload a packet type has
PayloadKind(type) ==
    CASE type = CONNECT -> "connect"
      [] type \in {PUBLISH, SUBACK, UNSUBACK} -> "data"
      [] type = SUBSCRIBE -> "subscribe"
      [] type = UNSUBSCRIBE -> "unsubscribe"
      [] OTHER -> "empty"

\* the constructors; a pointer to a heap object is the sequence of that one
\* object, the null pointer is the empty sequence; Payload<CONNECT>() leaves
\* fixedHeader to setFlags
Payload_new(type) ==
    CASE PayloadKind(type) = "connect" ->
           [clientID |-> DynamicString_new, willMessage |-> <<>>,
            username |-> DynamicString_new, password |-> DynamicString_new,
            fixedHeader |-> Indet]
      [] PayloadKind(type) = "data" -> [data |-> <<>>, size |-> 0]
      [] PayloadKind(type) \in {"subscribe", "unsubscribe"} ->
           [topics |-> <<>>, expSize |-> 0]
      [] OTHER -> [empty |-> TRUE]

\* the flags of the FixedField<CONNECT> that fixedHeader points at
willFlag(x, h) == (h[x.fixedHeader].fixedVariableHeader.flags \div 4) % 2 = 1

usernameFlag(x, h) ==
    (h[x.fixedHeader].fixedVariableHeader.flags \div 128) % 2 = 1

passwordFlag(x, h) ==
    (h[x.fixedHeader].fixedVariableHeader.flags \div 64) % 2 = 1

\* SubscribeTopic::getSize of a list (each node has a topic and an option)
RECURSIVE SubscribeTopic_getSize(_)
SubscribeTopic_getSize(ts) ==
    IF ts = <<>> THEN 0
    ELSE DynamicString_getSize(ts[1].topic) + 1
         + SubscribeTopic_getSize(Tail(ts))

\* SubscribeTopic::copyInto with the option byte written before the topic
RECURSIVE SubscribeTopic_copyInto_optionFirst(_)
SubscribeTopic_copyInto_optionFirst(ts) ==
    IF ts = <<>> THEN <<>>
    ELSE <<ts[1].option>> \o DynamicString_copyInto(ts[1].topic)
         \o SubscribeTopic_copyInto_optionFirst(Tail(ts))

\* SubscribeTopic::copyInto of a list: the bytes written
RECURSIVE SubscribeTopic_copyInto(_)
SubscribeTopic_copyInto(ts) ==
    IF ts = <<>> THEN <<>>
    ELSE DynamicString_copyInto(ts[1].topic) \o <<ts[1].option>>
         \o SubscribeTopic_copyInto(Tail(ts))

\* the bit-fields of SubscribeTopic::option (IsBigEndian != 1: QoS is in the
\* low bits)
SubscribeTopic_QoS(option) == option % 4
SubscribeTopic_retainAsPublished(option) == (option \div 8) % 2
SubscribeTopic_retainHandling(option) == (option \div 16) % 4
SubscribeTopic_reserved(option) == option \div 64

\* SubscribeTopic::check of a list
RECURSIVE SubscribeTopic_check(_, _)
SubscribeTopic_check(ts, nullAlloc) ==
    IF ts = <<>> THEN TRUE
    ELSE /\ SubscribeTopic_reserved(ts[1].option) = 0
         /\ SubscribeTopic_retainAsPublished(ts[1].option) # 3
         /\ SubscribeTopic_QoS(ts[1].option) # 3
         /\ DynamicString_check(ts[1].topic, DataIsNull(ts[1].topic, nullAlloc))
         /\ SubscribeTopic_check(Tail(ts), nullAlloc)

\* SubscribeTopic::readFrom of a node made by SubscribeTopic(): the list
\* from that node on
RECURSIVE SubscribeTopic_readFrom(_, _, _)
SubscribeTopic_readFrom(m, off, bufLength) ==
    With(DynamicString_readFrom(DynamicString_new, m, off, bufLength),
         LAMBDA t :
      IF isError(t.ret)
      THEN [ret |-> t.ret, hi |-> t.hi, v |-> <<[topic |-> t.v, option |-> 0]>>]
      ELSE IF bufLength - t.ret = 0
      THEN [ret |-> NotEnoughData, hi |-> t.hi,
            v |-> <<[topic |-> t.v, option |-> 0]>>]
      ELSE
      LET read == [topic |-> t.v, option |-> Read(m, off + t.ret)]
          o == t.ret + 1
      IN  IF bufLength - o = 0
          THEN [ret |-> o, hi |-> off + o, v |-> <<read>>]
          ELSE With(SubscribeTopic_readFrom(m, off + o, bufLength - o),
                    LAMBDA n :
                 [ret |-> IF isError(n.ret) THEN n.ret ELSE o + n.ret,
                  hi |-> Max(off + o, n.hi), v |-> <<read>> \o n.v]))

\* UnsubscribeTopic::getSize of a list (each node has a topic)
RECURSIVE UnsubscribeTopic_getSize(_)
UnsubscribeTopic_getSize(ts) ==
    IF ts = <<>> THEN 0
    ELSE DynamicString_getSize(ts[1].topic) + UnsubscribeTopic_getSize(Tail(ts))

RECURSIVE UnsubscribeTopic_copyInto(_)
UnsubscribeTopic_copyInto(ts) ==
    IF ts = <<>> THEN <<>>
    ELSE DynamicString_copyInto(ts[1].topic) \o UnsubscribeTopic_copyInto(Tail(ts))

RECURSIVE UnsubscribeTopic_readFrom(_, _, _)
UnsubscribeTopic_readFrom(m, off, bufLength) ==
    With(DynamicString_readFrom(DynamicString_new, m, off, bufLength),
         LAMBDA t :
      IF isError(t.ret) \/ bufLength - t.ret = 0
      THEN [ret |-> t.ret, hi |-> t.hi, v |-> <<[topic |-> t.v]>>]
      ELSE With(UnsubscribeTopic_readFrom(m, off + t.ret, bufLength - t.ret),
                LAMBDA n :
             [ret |-> IF isError(n.ret) THEN n.ret ELSE t.ret + n.ret,
              hi |-> Max(t.hi, n.hi), v |-> <<[topic |-> t.v]>> \o n.v]))

\* Payload<CONNECT> calls a method of willMessage when the will flag is set:
\* with a null willMessage the call has no defined behaviour
PayloadCONNECT_nullWill(x, h) ==
    x.fixedHeader # NullPtr /\ willFlag(x, h) /\ x.willMessage = <<>>

\* Platform::safeRealloc(data, n) followed by size = data ? n : 0.  The
\* allocator is not part of the header: a block the memory can hold is
\* allocated, a block of 2^31 bytes or more is allocated when `big` holds.
PayloadWithData_setExpectedPacketSize(x, sizeInBytes, big) ==
    IF sizeInBytes < 0
    THEN IF big THEN [x EXCEPT !.size = sizeInBytes]
         ELSE [data |-> <<>>, size |-> 0]
    ELSE [data |-> [i \in 1..sizeInBytes |->
                      IF i <= Len(x.data) THEN x.data[i] ELSE Indet],
          size |-> sizeInBytes]

\* the extent of a read that is not within any buffer: a copy of 2^31 bytes
\* or more, a call through a null pointer
WholeMemory == 2147483647

\* payload.getSize; h holds the packets a pointer can point into
Payload_getSize(type, x, h) ==
    CASE PayloadKind(type) = "connect" ->
           DynamicString_getSize(x.clientID)
           + (IF x.fixedHeader = NullPtr THEN 0
              ELSE (IF willFlag(x, h) /\ x.willMessage # <<>>
                    THEN WillMessage_getSize(x.willMessage[1]) ELSE 0)
                   + (IF usernameFlag(x, h)
                      THEN DynamicString_getSize(x.username) ELSE 0)
                   + (IF passwordFlag(x, h)
                      THEN DynamicString_getSize(x.password) ELSE 0))
      [] PayloadKind(type) = "data" -> x.size
      [] PayloadKind(type) = "subscribe" -> SubscribeTopic_getSize(x.topics)
      [] PayloadKind(type) = "unsubscribe" -> UnsubscribeTopic_getSize(x.topics)
      [] OTHER -> 0

\* payload.copyInto: the bytes written
Payload_copyInto(type, x, h) ==
    CASE PayloadKind(type) = "connect" ->
           DynamicString_copyInto(x.clientID)
           \o (IF x.fixedHeader = NullPtr THEN <<>>
               ELSE (IF willFlag(x, h) /\ x.willMessage # <<>>
                     THEN WillMessage_copyInto(x.willMessage[1]) ELSE <<>>)
                    \o (IF usernameFlag(x, h)
                        THEN DynamicString_copyInto(x.username) ELSE <<>>)
                    \o (IF passwordFlag(x, h)
                        THEN DynamicString_copyInto(x.password) ELSE <<>>))
      [] PayloadKind(type) = "data" ->
           [i \in 1..x.size |-> IF i <= Len(x.data) THEN x.data[i] ELSE Indet]
      [] PayloadKind(type) = "subscribe" -> SubscribeTopic_copyInto(x.topics)
      [] PayloadKind(type) = "unsubscribe" -> UnsubscribeTopic_copyInto(x.topics)
      [] OTHER -> <<>>

\* Payload<CONNECT>::check; null tells of each string whether its data is
\* null.  checkWillProperties calls willMessage->check(): the caller makes
\* sure that willMessage is not null
PayloadCONNECT_check(x, h, null, nullAlloc) ==
    IF ~DynamicString_check(x.clientID, null.clientID) THEN FALSE
    ELSE IF x.fixedHeader = NullPtr THEN TRUE
    ELSE IF willFlag(x, h)
            /\ ~WillMessage_check(x.willMessage[1], null.willTopic,
                                  null.willPayload, nullAlloc) THEN FALSE
    ELSE IF usernameFlag(x, h)
            /\ ~DynamicString_check(x.username, null.username) THEN FALSE
    ELSE IF passwordFlag(x, h)
            /\ ~DynamicString_check(x.password, null.password) THEN FALSE
    ELSE TRUE

\* Payload<CONNECT>::readFrom
PayloadCONNECT_readFrom(prev, h, reg, m, off, bufLength) ==
    With(DynamicString_readFrom(prev.clientID, m, off, bufLength), LAMBDA c :
      IF isError(c.ret) \/ prev.fixedHeader = NullPtr
      THEN [ret |-> c.ret, hi |-> c.hi, v |-> [prev EXCEPT !.clientID = c.v]]
      ELSE
      With(IF ~willFlag(prev, h)
           THEN [ret |-> 0, hi |-> 0, v |-> prev.willMessage]
           ELSE IF prev.willMessage = <<>>
           THEN [ret |-> BadData, hi |-> WholeMemory, v |-> prev.willMessage]
           ELSE With(WillMessage_readFrom(prev.willMessage[1], reg, m,
                                          off + c.ret, bufLength - c.ret),
                     LAMBDA r : [ret |-> r.ret, hi |-> r.hi, v |-> <<r.v>>]),
           LAMBDA w :
        IF isError(w.ret)
        THEN [ret |-> w.ret, hi |-> Max(c.hi, w.hi),
              v |-> [prev EXCEPT !.clientID = c.v, !.willMessage = w.v]]
        ELSE
        With(IF usernameFlag(prev, h)
             THEN DynamicString_readFrom(prev.username, m, off + c.ret + w.ret,
                                         bufLength - c.ret - w.ret)
             ELSE [ret |-> 0, hi |-> 0, v |-> prev.username], LAMBDA u :
          IF isError(u.ret)
          THEN [ret |-> u.ret, hi |-> Max(Max(c.hi, w.hi), u.hi),
                v |-> [prev EXCEPT !.clientID = c.v, !.willMessage = w.v,
                                   !.username = u.v]]
          ELSE
          With(IF passwordFlag(prev, h)
               THEN DynamicString_readFrom(
                        prev.password, m, off + c.ret + w.ret + u.ret,
                        bufLength - c.ret - w.ret - u.ret)
               ELSE [ret |-> 0, hi |-> 0, v |-> prev.password], LAMBDA q :
            [ret |-> IF isError(q.ret) THEN q.ret
                     ELSE c.ret + w.ret + u.ret + q.ret,
             hi |-> Max(Max(Max(c.hi, w.hi), u.hi), q.hi),
             v |-> [prev EXCEPT !.clientID = c.v, !.willMessage = w.v,
                                !.username = u.v, !.password = q.v]]))))

\* PayloadWithData<true>::readFrom
PayloadWithData_readFrom(prev, m, off, bufLength) ==
    IF ULt(bufLength, prev.size)
    THEN [ret |-> NotEnoughData, hi |-> 0, v |-> prev]
    ELSE IF prev.size < 0
    THEN [ret |-> prev.size, hi |-> WholeMemory, v |-> prev]
    ELSE [ret |-> prev.size,
          hi |-> IF prev.size = 0 THEN 0 ELSE off + prev.size,
          v |-> [prev EXCEPT !.data = ReadN(m, off, prev.size)]]

\* Payload<SUBSCRIBE>::readFrom, Payload<UNSUBSCRIBE>::readFrom
PayloadSUBSCRIBE_readFrom(type, prev, m, off, bufLength) ==
    IF ULt(bufLength, prev.expSize)
    THEN [ret |-> NotEnoughData, hi |-> 0, v |-> prev]
    ELSE With(IF type = SUBSCRIBE
              THEN SubscribeTopic_readFrom(m, off, prev.expSize)
              ELSE UnsubscribeTopic_readFrom(m, off, prev.expSize), LAMBDA r :
           [ret |-> r.ret, hi |-> r.hi, v |-> [prev EXCEPT !.topics = r.v]])

\* payload.setExpectedPacketSize
Payload_setExpectedPacketSize(type, x, sizeInBytes, big) ==
    CASE PayloadKind(type) = "data" ->
           PayloadWithData_setExpectedPacketSize(x, sizeInBytes, big)
      [] PayloadKind(type) \in {"subscribe", "unsubscribe"} ->
           [x EXCEPT !.expSize = sizeInBytes]
      [] OTHER -> x

\* payload.readFrom of a packet of the given type
Payload_readFrom(type, prev, h, reg, m, off, bufLength) ==
    CASE PayloadKind(type) = "connect" ->
           PayloadCONNECT_readFrom(prev, h, reg, m, off, bufLength)
      [] PayloadKind(type) = "data" ->
           PayloadWithData_readFrom(prev, m, off, bufLength)
      [] PayloadKind(type) \in {"subscribe", "unsubscribe"} ->
           PayloadSUBSCRIBE_readFrom(type, prev, m, off, bufLength)
      [] OTHER -> [ret |-> 0, hi |-> 0, v |-> prev]

--------------------------------------------------------------------------
(* ControlPacket<type> and PingTemplate<type>.  A packet lives in a heap h, *)
(* a sequence of packets; the pointers that FixedField<PUBLISH>::flags and  *)
(* Payload<CONNECT>::fixedHeader hold are indices of h.                     *)

IsPing(type) == type \in {PINGREQ, PINGRESP}

\* ControlPacket(): the packet built at index self of the heap, setFlags done
ControlPacket_new(type, self) ==
    IF IsPing(type)
    THEN [type |-> type, header |-> [typeAndFlags |-> FixedHeaderType_new(type)]]
    ELSE [type |-> type,
          header |-> [typeAndFlags |-> FixedHeaderType_new(type)],
          remLength |-> VBInt_new(0),
          fixedVariableHeader |->
              IF type = PUBLISH
              THEN [FixedField_new(type) EXCEPT !.flags = self]
              ELSE FixedField_new(type),
          props |-> Properties_new,
          payload |->
              IF type = CONNECT
              THEN [Payload_new(type) EXCEPT !.fixedHeader = self]
              ELSE Payload_new(type)]

\* computePacketSize(false) of the packet x
ControlPacket_payloadSize(x, h) ==
    VBInt_toU32(x.remLength)
    - FixedField_getSize(x.type, x.fixedVariableHeader, h)
    - Properties_getSize(x.props)

\* computePacketSize(): the value returned and the packet it leaves
ControlPacket_computePacketSize(h, self) ==
    LET x == h[self]
    IN  IF IsPing(x.type) THEN [ret |-> 2, v |-> x]
        ELSE LET o == FixedField_getSize(x.type, x.fixedVariableHeader, h)
                      + Properties_getSize(x.props)
                      + Payload_getSize(x.type, x.payload, h)
                 rl == VBInt_assign(x.remLength, o)
             IN  [ret |-> o + 1 + VBInt_getSize(rl),
                  v |-> [x EXCEPT !.remLength = rl]]

\* getSize
ControlPacket_getSize(x) ==
    IF IsPing(x.type) THEN 2
    ELSE 1 + VBInt_getSize(x.remLength) + VBInt_toU32(x.remLength)

\* copyInto: the bytes written (their number is the value returned)
ControlPacket_copyInto(h, self) ==
    LET x == h[self]
    IN  IF IsPing(x.type) THEN <<x.header.typeAndFlags, 0>>
        ELSE <<x.header.typeAndFlags>>
             \o VBInt_copyInto(x.remLength)
             \o FixedField_copyInto(x.type, x.fixedVariableHeader, h)
             \o Properties_copyInto(x.props)
             \o Payload_copyInto(x.type, x.payload, h)

\* PingTemplate::readFrom
PingTemplate_readFrom(x, m, bufLength) ==
    IF ULt(bufLength, 2) THEN [ret |-> NotEnoughData, hi |-> 0, v |-> x]
    ELSE [ret |-> IF Read(m, 1) # 0 THEN BadData ELSE 2, hi |-> 2,
          v |-> [x EXCEPT !.header.typeAndFlags = Read(m, 0)]]

\* FixedField<type>::check() of the types whose fixed variable header holds
\* no string: FixedField<CONNACK> tests the acknowledge flag, the others
\* return true
FixedField_check(type, x) ==
    type = CONNACK => x.acknowledgeFlag \div 2 = 0

\* ControlPacket::check() and PingTemplate::check() of a packet whose fixed
\* variable header and payload hold no string; payload.check() of
\* PayloadWithData and of the empty Payload is true.  typeAndFlags is what
\* the read of the const member header.typeAndFlags gives.
ControlPacket_check(x, typeAndFlags, nullAlloc) ==
    IF IsPing(x.type) THEN FixedHeaderType_check(x.type, typeAndFlags)
    ELSE /\ FixedHeaderType_check(x.type, typeAndFlags)
         /\ VBInt_check(x.remLength)
         /\ FixedField_check(x.type, x.fixedVariableHeader)
         /\ Properties_checkPropertiesFor(x.props, x.type, nullAlloc)

\* ControlPacket::readFrom from the fixed variable header on: x0 has the
\* header byte and the remaining length read, o bytes are consumed
ControlPacket_readBody(h, self, reg, big, x0, o, m, bufLength) ==
    With([x0 EXCEPT !.fixedVariableHeader =
            FixedField_setRemainingLength(x0.type, @,
                                          VBInt_toU32(x0.remLength))],
         LAMBDA x1 :
    With(FixedField_readFrom(x1.type, x1.fixedVariableHeader,
                             [h EXCEPT ![self] = x1], m, o, bufLength),
         LAMBDA f :
      IF isError(f.ret)
      THEN [ret |-> IF isShortcut(f.ret)
                    THEN o + VBInt_toU32(x0.remLength) ELSE f.ret,
            hi |-> f.hi, v |-> [x1 EXCEPT !.fixedVariableHeader = f.v]]
      ELSE
      With(Properties_readFrom(x1.props, reg, m, o + f.ret, bufLength - f.ret),
           LAMBDA p :
      With([x1 EXCEPT !.fixedVariableHeader = f.v, !.props = p.v], LAMBDA x3 :
        IF isError(p.ret)
        THEN [ret |-> p.ret, hi |-> Max(f.hi, p.hi), v |-> x3]
        ELSE
        With(Payload_setExpectedPacketSize(
                 x3.type, x3.payload,
                 ControlPacket_payloadSize(x3, [h EXCEPT ![self] = x3]), big),
             LAMBDA expecting :
        With(Payload_readFrom(x3.type, expecting, [h EXCEPT ![self] = x3], reg,
                              m, o + f.ret + p.ret, bufLength - f.ret - p.ret),
             LAMBDA q :
          [ret |-> IF isError(q.ret) THEN q.ret ELSE o + f.ret + p.ret + q.ret,
           hi |-> Max(Max(f.hi, p.hi), q.hi),
           v |-> [x3 EXCEPT !.payload = q.v]]))))))

\* readFrom(buffer, bufLength) of the packet at index self, the buffer
\* starting at index 0 of m
ControlPacket_readFrom(h, self, reg, big, m, bufLength) ==
    LET x == h[self]
    IN  IF IsPing(x.type) THEN PingTemplate_readFrom(x, m, bufLength)
        ELSE IF ULt(bufLength, 2)
        THEN [ret |-> NotEnoughData, hi |-> 0, v |-> x]
        ELSE
        With(VBInt_readFrom(x.remLength, m, 1, bufLength - 1), LAMBDA l :
          LET x0 == [x EXCEPT !.header.typeAndFlags = Read(m, 0),
                              !.remLength = l.vb]
          IN  IF isError(l.ret)
              THEN [ret |-> l.ret, hi |-> Max(1, l.hi), v |-> x0]
              ELSE IF ULt(bufLength - 1 - l.ret, VBInt_toU32(l.vb))
              THEN [ret |-> NotEnoughData, hi |-> l.hi, v |-> x0]
              ELSE With(ControlPacket_readBody(h, self, reg, big, x0,
                                               1 + l.ret, m,
                                               bufLength - 1 - l.ret),
                        LAMBDA r :
                     [ret |-> r.ret, hi |-> Max(l.hi, r.hi), v |-> r.v]))

--------------------------------------------------------------------------
(* Inputs *)

\* the longest raw buffer handed to VBInt::readFrom
MaxRaw == 4

\* the integers assigned: the ends of the four magnitude bands, and beyond
VBInputs ==
    {0, 1, 2, 64, 126, 127, 128, 129, 255, 256, 300, 8192, 16382, 16383,
     16384, 16385, 65535, 65536, 1000000, 2097150, 2097151, 2097152, 2097153,
     16777216, 134217728, 268435454, 268435455, 268435456, 268435457,
     2147483647}

\* the bytes of raw buffers
RawBytes == {0, 1, 127, 128, 255}

RECURSIVE SeqsUpTo(_, _)
SeqsUpTo(S, n) ==
    IF n = 0 THEN {<<>>}
    ELSE LET shorter == SeqsUpTo(S, n - 1)
         IN  shorter \cup {Append(s, x) : s \in {t \in shorter : Len(t) = n - 1}, x \in S}

--------------------------------------------------------------------------
(* The VBInt specification: assign, serialise, read back *)

Init ==
    /\ op = "init"
    /\ mem = <<>>
    /\ size = 0
    /\ ret = 0
    /\ hi = 0
    /\ num = 0
    /\ vb = VBInt_new(0)
    /\ vbr = VBInt_new(0)
    /\ ptype = RESERVED
    /\ pkt = <<>>
    /\ registry = PropertyRegistry_new
    /\ visitors = MMProp_new

\* vb = n
VBAssign(n) ==
    /\ op = "init"
    /\ op' = "assign"
    /\ num' = n
    /\ vb' = VBInt_assign(vb, n)
    /\ mem' = <<>>
    /\ size' = 0
    /\ ret' = 0
    /\ hi' = 0
    /\ UNCHANGED <<vbr, ptype, pkt, registry, visitors>>

\* vb.copyInto(buffer)
VBCopyInto ==
    /\ op = "assign"
    /\ op' = "copyInto"
    /\ mem' = VBInt_copyInto(vb)
    /\ size' = Len(mem')
    /\ ret' = VBInt_getSize(vb)
    /\ hi' = 0
    /\ UNCHANGED <<num, vb, vbr, ptype, pkt, registry, visitors>>

\* a buffer of bytes that no VBInt wrote
VBRaw(bytes) ==
    /\ op = "init"
    /\ op' = "raw"
    /\ mem' = bytes
    /\ size' = Len(bytes)
    /\ ret' = 0
    /\ hi' = 0
    /\ UNCHANGED <<num, vb, vbr, ptype, pkt, registry, visitors>>

\* vbr.readFrom(buffer, k)
VBReadFrom(k) ==
    /\ op \in {"copyInto", "raw"}
    /\ LET r == VBInt_readFrom(vbr, mem, 0, k)
       IN  /\ op' = IF op = "copyInto" THEN "readFrom" ELSE "readRaw"
           /\ size' = k
           /\ ret' = r.ret
           /\ hi' = r.hi
           /\ vbr' = r.vb
    /\ UNCHANGED <<mem, num, vb, ptype, pkt, registry, visitors>>

NextVB ==
    \/ \E n \in VBInputs : VBAssign(n)
    \/ VBCopyInto
    \/ \E bytes \in SeqsUpTo(RawBytes, MaxRaw) : VBRaw(bytes)
    \/ \E k \in 0..Len(mem) : VBReadFrom(k)

SpecVB == Init /\ [][NextVB]_vars

--------------------------------------------------------------------------
(* C1 *)

\* C1: for every n in 0..268,435,455, assigning n to a VBInt, writing it
\* with copyInto and decoding those bytes with readFrom succeeds, consumes
\* exactly getSize() bytes (1 to 4) and yields the value n.
C1_RoundTrip ==
    (op = "readFrom" /\ size = Len(mem) /\ num <= MaxPossibleSize)
        => /\ ~isError(ret)
           /\ ret = VBInt_getSize(vb)
           /\ ret \in 1..4
           /\ VBInt_toU32(vbr) = num

--------------------------------------------------------------------------
(* The fixed header specification: checkHeader on the start of a frame *)

\* remaining lengths of every encoded size
HdrLengths ==
    {0, 1, 2, 127, 128, 300, 16383, 16384, 2097151, 2097152, 268435455}

\* the first bytes of the frames that continue with raw bytes
HdrRawFirst == {16, 48, 98}

\* a first byte followed by the remaining-length L as VBInt writes it
HdrFrame(first, L) ==
    /\ op = "init"
    /\ op' = "frame"
    /\ num' = L
    /\ vb' = VBInt_assign(vb, L)
    /\ mem' = <<first>> \o VBInt_copyInto(vb')
    /\ size' = Len(mem')
    /\ ret' = 0
    /\ hi' = 0
    /\ UNCHANGED <<vbr, ptype, pkt, registry, visitors>>

\* a first byte followed by bytes that no VBInt wrote
HdrRaw(first, bytes) ==
    /\ op = "init"
    /\ op' = "raw"
    /\ mem' = <<first>> \o bytes
    /\ size' = Len(mem')
    /\ ret' = 0
    /\ hi' = 0
    /\ UNCHANGED <<num, vb, vbr, ptype, pkt, registry, visitors>>

\* checkHeader(buffer, k, &type)
HdrCheck(k) ==
    /\ op \in {"frame", "raw"}
    /\ LET r == checkHeader(mem, k, ptype)
       IN  /\ op' = IF op = "frame" THEN "check" ELSE "checkRaw"
           /\ size' = k
           /\ ret' = r.ret
           /\ hi' = r.hi
           /\ ptype' = r.type
    /\ UNCHANGED <<mem, num, vb, vbr, pkt, registry, visitors>>

NextHdr ==
    \/ \E first \in Byte, L \in HdrLengths : HdrFrame(first, L)
    \/ \E first \in HdrRawFirst, bytes \in SeqsUpTo(RawBytes, MaxRaw) :
           HdrRaw(first, bytes)
    \/ \E k \in 0..Len(mem) : HdrCheck(k)

SpecHdr == Init /\ [][NextHdr]_vars

--------------------------------------------------------------------------
(* C3, C4 *)

\* C3: for every first byte followed by a well-formed remaining-length,
\* checkHeader accepts the byte exactly when its low nibble is the flag
\* nibble its packet type writes when serialised (any nibble for PUBLISH),
\* and it returns BadData for the reserved type 0 whatever the nibble.
C3_FlagNibble ==
    (op = "check" /\ size = Len(mem) /\ num <= MaxSizeOn3Bytes)
        => LET type == mem[1] \div 16
           IN  /\ type # RESERVED
                    => (~isError(ret) <=> FixedHeaderType_check(type, mem[1]))
               /\ type = RESERVED => ret = BadData

\* C4: for a buffer of at least 2 bytes whose first byte is accepted,
\* checkHeader returns 1 + s + L for the remaining-length L of encoded size
\* s that starts at byte 1, for every L in 0..268,435,455, and reports the
\* packet type of the first byte; it returns NotEnoughData when fewer than
\* 2 bytes are given or when the VBInt is cut off by the end of the buffer.
C4_FrameLength ==
    /\ (op \in {"check", "checkRaw"} /\ size < 2) => ret = NotEnoughData
    /\ (op = "check" /\ ret # BadData /\ size >= 2 /\ size < Len(mem))
           => ret = NotEnoughData
    /\ (op = "check" /\ size = Len(mem) /\ num <= MaxPossibleSize
           /\ (mem[1] \div 16 = PUBLISH
                 \/ mem[1] % 16 = expectedFlags[(mem[1] \div 16) + 1]))
           => /\ ret = 1 + VBInt_getSize(vb) + num
              /\ ptype = mem[1] \div 16

--------------------------------------------------------------------------
(* Inputs of the packet specifications *)

\* the longest property list a caller builds
MaxProps == 2

\* the longest body of a raw frame
MaxBody == 4

\* the number of frames one packet object parses
MaxFrames == 2

StrInputs == {<<>>, <<97, 47>>}

IdInputs == {1, 258}

ReasonInputs == {0, 128}

\* the connect flags: none, clean start, will, will with QoS and retain,
\* user name, password, all
ConnectFlagInputs == {0, 2, 6, 46, 128, 64, 198}

\* the properties a caller appends, one of every value type
PropInputs ==
    <<TypedProperty(PayloadFormat, 1),
      TypedProperty(MessageExpiryInterval, 16909060),
      TypedProperty(ContentType, DynamicString_from(<<97>>)),
      TypedProperty(SubscriptionID, VBInt_new(128)),
      TypedProperty(SubscriptionID, VBInt_new(2097152)),
      TypedProperty(UserProperty, [key |-> DynamicString_from(<<107>>),
                                   value |-> DynamicString_from(<<118>>)])>>

WillInputs ==
    {<<>>,
     <<[willProperties |-> Properties_new,
        willTopic |-> DynamicString_from(<<119>>),
        willPayload |-> DynamicString_from(<<1>>)]>>,
     <<[willProperties |-> Properties_append(Properties_new, PropInputs[1]),
        willTopic |-> DynamicString_from(<<119>>),
        willPayload |-> DynamicString_new]>>}

SubscribeInputs ==
    {<<>>,
     <<[topic |-> DynamicString_from(<<97>>), option |-> 1]>>,
     <<[topic |-> DynamicString_from(<<97>>), option |-> 1],
       [topic |-> DynamicString_from(<<98, 47, 35>>), option |-> 4]>>}

UnsubscribeInputs ==
    {<<>>,
     <<[topic |-> DynamicString_from(<<97>>)]>>,
     <<[topic |-> DynamicString_from(<<97>>)],
       [topic |-> DynamicString_from(<<98, 35>>)]>>}

\* the values a caller gives the public fields of the fixed variable header x
FixedFieldInputs(type, x) ==
    CASE type = CONNECT ->
           {[x EXCEPT !.flags = fl, !.keepAlive = ka] :
               fl \in ConnectFlagInputs, ka \in {30, 258}}
      [] type = CONNACK ->
           {[x EXCEPT !.acknowledgeFlag = a, !.reasonCode = r] :
               a \in {0, 1}, r \in ReasonInputs}
      [] type = PUBLISH ->
           {[x EXCEPT !.topicName = DynamicString_from(t), !.packetID = i] :
               t \in StrInputs, i \in IdInputs}
      [] FixedFieldKind(type) = "id" ->
           {[x EXCEPT !.packetID = i] : i \in IdInputs}
      [] FixedFieldKind(type) = "idreason" ->
           {[x EXCEPT !.packetID = i, !.reasonCode = r] :
               i \in IdInputs, r \in ReasonInputs}
      [] OTHER -> {[x EXCEPT !.reasonCode = r] : r \in Byte}

\* the values a caller gives the public fields of the payload x
PayloadInputs(type, x) ==
    CASE PayloadKind(type) = "connect" ->
           {[x EXCEPT !.clientID = DynamicString_from(c), !.willMessage = w,
                      !.username = DynamicString_from(<<117>>),
                      !.password = DynamicString_from(<<112>>)] :
               c \in {<<>>, <<97>>}, w \in WillInputs}
      [] PayloadKind(type) = "data" ->
           {[data |-> d, size |-> Len(d)] :
               d \in {<<>>, <<7, 8>>, [i \in 1..130 |-> i]}}
      [] PayloadKind(type) = "subscribe" ->
           {[x EXCEPT !.topics = ts] : ts \in SubscribeInputs}
      [] PayloadKind(type) = "unsubscribe" ->
           {[x EXCEPT !.topics = ts] : ts \in UnsubscribeInputs}
      [] OTHER -> {x}

\* the first bytes of raw frames: every packet type with the flags it
\* writes, and a PUBLISH with QoS 1
RawFirst == {FixedHeaderType_new(t) : t \in 1..15} \cup {50}

BodyBytes == {0, 1, 2, 128}

\* FixedHeaderType<PUBLISH, 0>::setQoS that stores e without the test e < 3
PublishHeader_setQoS_unclamped(typeAndFlags, e) ==
    typeAndFlags - ((typeAndFlags \div 2) % 4) * 2 + (e % 4) * 2

\* FixedHeaderType<PUBLISH, 0>::setQoS, setDup, setRetain
PublishHeader_setQoS(typeAndFlags, e) ==
    typeAndFlags - ((typeAndFlags \div 2) % 4) * 2
    + (IF e < 3 THEN e * 2 ELSE 0)

PublishHeader_setDup(typeAndFlags, e) ==
    typeAndFlags - ((typeAndFlags \div 8) % 2) * 8 + (IF e THEN 8 ELSE 0)

PublishHeader_setRetain(typeAndFlags, e) ==
    typeAndFlags - (typeAndFlags % 2) + (IF e THEN 1 ELSE 0)

\* FixedHeaderType<PUBLISH, 0>::getQoS, isDup, isRetain
PublishHeader_getQoS(typeAndFlags) == (typeAndFlags \div 2) % 4

PublishHeader_isDup(typeAndFlags) == (typeAndFlags \div 8) % 2 = 1

PublishHeader_isRetain(typeAndFlags) == typeAndFlags % 2 = 1

\* FixedHeaderType<PUBLISH, 0>::FixedHeaderType(dup, QoS, retain)
PublishHeader_new(dup, QoS, retain) ==
    PUBLISH * 16 + (IF dup THEN 8 ELSE 0) + (IF retain THEN 1 ELSE 0)
    + (IF QoS < 3 THEN QoS * 2 ELSE 0)

--------------------------------------------------------------------------
(* The packet specification: a caller builds a packet, serialises it, and *)
(* a second packet of the same type reads the bytes                        *)

\* registerAllProperties()
RegisterAll ==
    /\ op = "init"
    /\ registry' = registerAllProperties(registry)
    /\ UNCHANGED <<op, mem, size, ret, hi, num, vb, vbr, ptype, pkt, visitors>>

\* two packets of one type are constructed, once the properties are
\* registered
New(type) ==
    /\ op = "init"
    /\ registry # PropertyRegistry_new
    /\ op' = "new"
    /\ pkt' = <<ControlPacket_new(type, 1), ControlPacket_new(type, 2)>>
    /\ UNCHANGED <<mem, size, ret, hi, num, vb, vbr, ptype, registry, visitors>>

\* the caller assigns the public fields of the first packet
SetFields ==
    /\ op = "new"
    /\ ~IsPing(pkt[1].type)
    /\ op' = "set"
    /\ \E f \in FixedFieldInputs(pkt[1].type, pkt[1].fixedVariableHeader),
          p \in PayloadInputs(pkt[1].type, pkt[1].payload) :
           pkt' = [pkt EXCEPT ![1].fixedVariableHeader = f, ![1].payload = p]
    /\ UNCHANGED <<mem, size, ret, hi, num, vb, vbr, ptype, registry, visitors>>

\* props.append(new property); a DISCONNECT or AUTH gets properties with
\* the reason codes of ReasonInputs only
AppendProp(i) ==
    /\ op = "set"
    /\ ~IsPing(pkt[1].type)
    /\ Len(pkt[1].props.head) < MaxProps
    /\ pkt[1].type \in {DISCONNECT, AUTH}
           => pkt[1].fixedVariableHeader.reasonCode \in ReasonInputs
    /\ pkt' = [pkt EXCEPT ![1].props = Properties_append(@, PropInputs[i])]
    /\ UNCHANGED <<op, mem, size, ret, hi, num, vb, vbr, ptype, registry, visitors>>

\* header.setQoS(e)
PublishSetQoS(e) ==
    /\ op = "set"
    /\ pkt[1].type = PUBLISH
    /\ pkt' = [pkt EXCEPT ![1].header.typeAndFlags = PublishHeader_setQoS(@, e)]
    /\ UNCHANGED <<op, mem, size, ret, hi, num, vb, vbr, ptype, registry, visitors>>

\* header.setDup(e)
PublishSetDup(e) ==
    /\ op = "set"
    /\ pkt[1].type = PUBLISH
    /\ pkt' = [pkt EXCEPT ![1].header.typeAndFlags = PublishHeader_setDup(@, e)]
    /\ UNCHANGED <<op, mem, size, ret, hi, num, vb, vbr, ptype, registry, visitors>>

\* header.setRetain(e)
PublishSetRetain(e) ==
    /\ op = "set"
    /\ pkt[1].type = PUBLISH
    /\ pkt' = [pkt EXCEPT ![1].header.typeAndFlags =
                 PublishHeader_setRetain(@, e)]
    /\ UNCHANGED <<op, mem, size, ret, hi, num, vb, vbr, ptype, registry, visitors>>

\* computePacketSize() then copyInto(buffer) of the first packet: ret is the
\* size computed, size the number of bytes copyInto wrote
Serialize ==
    /\ op = "set" \/ (op = "new" /\ IsPing(pkt[1].type))
    /\ IF pkt[1].type = CONNECT /\ PayloadCONNECT_nullWill(pkt[1].payload, pkt)
       THEN /\ op' = "nullWill"
            /\ UNCHANGED <<mem, size, ret, pkt>>
       ELSE LET c == ControlPacket_computePacketSize(pkt, 1)
                h1 == [pkt EXCEPT ![1] = c.v]
            IN  /\ op' = "wire"
                /\ pkt' = h1
                /\ ret' = c.ret
                /\ mem' = ControlPacket_copyInto(h1, 1)
                /\ size' = Len(mem')
    /\ UNCHANGED <<hi, num, vb, vbr, ptype, registry, visitors>>

\* a DISCONNECT or AUTH frame with remaining length 0
Frame0(type) ==
    /\ op = "init"
    /\ registry # PropertyRegistry_new
    /\ op' = "frame"
    /\ pkt' = <<ControlPacket_new(type, 1), ControlPacket_new(type, 2)>>
    /\ mem' = <<FixedHeaderType_new(type), 0>>
    /\ size' = 2
    /\ UNCHANGED <<ret, hi, num, vb, vbr, ptype, registry, visitors>>

\* the second packet reads the buffer: readFrom(buffer, k).  A read outside
\* the modelled memory has no defined result (op = "fault").
ReadFrom(k, big) ==
    /\ op \in {"wire", "frame", "raw", "ack"}
    /\ \E r \in {ControlPacket_readFrom(pkt, 2, registry, big, mem, k)} :
           /\ size' = k
           /\ hi' = r.hi
           /\ IF r.hi > Len(mem)
              THEN op' = "fault" /\ UNCHANGED <<ret, pkt>>
              ELSE /\ op' = CASE op = "wire" -> "read"
                              [] op = "frame" -> "readFrame"
                              [] op = "ack" -> "readAck"
                              [] OTHER -> "readRaw"
                   /\ ret' = r.ret
                   /\ pkt' = [pkt EXCEPT ![2] = r.v]
    /\ UNCHANGED <<mem, num, vb, vbr, ptype, registry, visitors>>

\* a well-formed PUBACK, PUBREC, PUBREL or PUBCOMP frame arrives, the first
\* for a fresh packet or the next for a packet that has parsed one: the
\* identifier alone, with a reason code, with an empty property list or with
\* one property
AckFrame(id, reason, form) ==
    /\ op \in {"new", "readAck"}
    /\ num < MaxFrames
    /\ LET body == BE16(id) \o CASE form = 2 -> <<>>
                                [] form = 3 -> <<reason>>
                                [] form = 4 -> <<reason, 0>>
                                [] OTHER -> <<reason, 2, PayloadFormat, 1>>
       IN  mem' = <<FixedHeaderType_new(pkt[2].type), Len(body)>> \o body
    /\ size' = Len(mem')
    /\ num' = num + 1
    /\ op' = "ack"
    /\ UNCHANGED <<ret, hi, vb, vbr, ptype, pkt, registry, visitors>>

\* payload.check() of the first CONNECT packet, whose strings the caller
\* made from texts (DynamicString(text) allocates length bytes); an empty
\* will payload is default-constructed
CheckSet(nullAlloc) ==
    /\ op = "set"
    /\ pkt[1].type = CONNECT
    /\ IF PayloadCONNECT_nullWill(pkt[1].payload, pkt)
       THEN op' = "fault" /\ UNCHANGED ret
       ELSE /\ op' = "checkSet"
            /\ ret' = IF PayloadCONNECT_check(pkt[1].payload, pkt,
                           [clientID |-> DataIsNull(pkt[1].payload.clientID,
                                                    nullAlloc),
                            willTopic |-> FALSE,
                            willPayload |-> willFlag(pkt[1].payload, pkt)
                                /\ pkt[1].payload.willMessage[1]
                                      .willPayload.length = 0,
                            username |-> FALSE, password |-> FALSE],
                           nullAlloc)
                      THEN 1 ELSE 0
    /\ UNCHANGED <<mem, size, hi, num, vb, vbr, ptype, pkt, registry, visitors>>

\* payload.check() of the second CONNECT packet after it has read a frame.
\* view: the strings are DynamicStringView, whose readFrom points data at the
\* buffer; else they are DynamicString, whose readFrom allocates length bytes
CheckRead(view, nullAlloc) ==
    /\ op = "read"
    /\ pkt[2].type = CONNECT
    /\ ~isError(ret)
    /\ op' = IF view THEN "checkView" ELSE "checkRead"
    /\ ret' = IF PayloadCONNECT_check(pkt[2].payload, pkt,
                    [clientID |-> ~view /\ DataIsNull(pkt[2].payload.clientID,
                                                      nullAlloc),
                     willTopic |-> FALSE, willPayload |-> FALSE,
                     username |-> ~view /\ DataIsNull(pkt[2].payload.username,
                                                      nullAlloc),
                     password |-> ~view /\ DataIsNull(pkt[2].payload.password,
                                                      nullAlloc)],
                    nullAlloc)
              THEN 1 ELSE 0
    /\ UNCHANGED <<mem, size, hi, num, vb, vbr, ptype, pkt, registry, visitors>>

NextPkt ==
    \/ RegisterAll
    \/ \E type \in 1..15 : New(type)
    \/ SetFields
    \/ \E i \in 1..Len(PropInputs) : AppendProp(i)
    \/ \E e \in 0..3 : PublishSetQoS(e)
    \/ \E e \in BOOLEAN : PublishSetDup(e)
    \/ \E e \in BOOLEAN : PublishSetRetain(e)
    \/ Serialize
    \/ \E type \in {DISCONNECT, AUTH} : Frame0(type)
    \/ \E big \in BOOLEAN : ReadFrom(Len(mem), big)
    \/ \E nullAlloc \in BOOLEAN : CheckSet(nullAlloc)
    \/ \E view \in BOOLEAN, nullAlloc \in BOOLEAN : CheckRead(view, nullAlloc)

SpecPkt == Init /\ [][NextPkt]_vars

--------------------------------------------------------------------------
(* The raw specification: a packet reads a prefix of a buffer of any bytes *)

\* a buffer that holds a first byte, a remaining length within the body and
\* a body, once the properties are registered
Raw(first, rl, body) ==
    /\ op = "init"
    /\ registry # PropertyRegistry_new
    /\ rl <= Len(body)
    /\ op' = "raw"
    /\ pkt' = <<ControlPacket_new(first \div 16, 1),
                ControlPacket_new(first \div 16, 2)>>
    /\ mem' = <<first, rl>> \o body
    /\ size' = Len(mem')
    /\ UNCHANGED <<ret, hi, num, vb, vbr, ptype, registry, visitors>>

NextRaw ==
    \/ RegisterAll
    \/ /\ op = "init"
       /\ \E first \in RawFirst, rl \in 0..MaxBody,
             body \in SeqsUpTo(BodyBytes, MaxBody) : Raw(first, rl, body)
    \/ /\ op = "raw"
       /\ \E k \in 0..Len(mem), big \in BOOLEAN : ReadFrom(k, big)

SpecRaw == Init /\ [][NextRaw]_vars

\* C2: the readFrom of every packet type reads only bytes at indices below
\* the given length: the read extent stays within bufLength, for every
\* buffer, every given length and every remaining length
C2_NoOverrun == op \in {"readRaw", "fault"} => hi <= size

\* C7: readFrom on the first k bytes of a buffer B, k < length(B), returns
\* NotEnoughData or what readFrom returns on all of B, and never reports
\* success with a consumed count larger than k
C7_Prefix ==
    (op = "readRaw" /\ size < Len(mem))
        => /\ \/ ret = NotEnoughData
              \/ \E big \in BOOLEAN :
                    ret = ControlPacket_readFrom(
                              <<pkt[1], ControlPacket_new(pkt[1].type, 2)>>, 2,
                              registry, big, mem, Len(mem)).ret
           /\ ~isError(ret) => ULe(ret, size)

--------------------------------------------------------------------------
(* The acknowledgement specification: one PUBACK, PUBREC, PUBREL or PUBCOMP *)
(* packet parses one frame after the other                                  *)

NextAck ==
    \/ RegisterAll
    \/ \E type \in {PUBACK, PUBREC, PUBREL, PUBCOMP} : New(type)
    \/ \E id \in IdInputs, reason \in ReasonInputs, form \in {2, 3, 4, 6} :
           AckFrame(id, reason, form)
    \/ /\ op = "ack"
       /\ \E big \in BOOLEAN : ReadFrom(Len(mem), big)

SpecAck == Init /\ [][NextAck]_vars

--------------------------------------------------------------------------
(* Properties of the packets *)

\* C6: for every packet type and every packet the caller filled in, the
\* value computePacketSize() returns is the byte count of the copyInto()
\* that follows, and the remaining length written in the frame is the number
\* of bytes written after it
C6_SizeMatches ==
    op = "wire"
        => /\ ret = size
           /\ size = Len(mem)
           /\ LET l == VBInt_readFrom(VBInt_new(0), mem, 1, Len(mem) - 1)
              IN  /\ ~isError(l.ret)
                  /\ VBInt_toU32(l.vb) = Len(mem) - 1 - l.ret

\* a CONNECT with a will, a user name, a password and a full property list
\* is serialised
C6_Witness ==
    /\ op = "wire"
    /\ pkt[1].type = CONNECT
    /\ pkt[1].fixedVariableHeader.flags = 198
    /\ pkt[1].payload.willMessage # <<>>
    /\ Len(pkt[1].props.head) = MaxProps
    /\ size > 30

\* C10: in a PUBLISH packet, getSize, copyInto and readFrom of the fixed
\* variable header count the 2-byte packet identifier exactly when the QoS
\* bits of the packet's own header byte are not zero, whatever setQoS or
\* readFrom made of that byte
C10_PacketIdWithQoS ==
    (op \in {"new", "set", "wire", "read"} /\ pkt[1].type = PUBLISH)
        => \A i \in 1..2 :
             LET x == pkt[i]
                 id == IF (x.header.typeAndFlags \div 2) % 4 # 0 THEN 2 ELSE 0
                 topic == DynamicString_getSize(x.fixedVariableHeader.topicName)
             IN  /\ FixedField_getSize(PUBLISH, x.fixedVariableHeader, pkt)
                      = topic + id
                 /\ Len(FixedField_copyInto(PUBLISH, x.fixedVariableHeader, pkt))
                      = topic + id
                 /\ (op = "read" /\ ~isError(ret))
                      => FixedField_readFrom(
                             PUBLISH, x.fixedVariableHeader, pkt, mem,
                             1 + VBInt_getSize(x.remLength),
                             VBInt_toU32(x.remLength)).ret = topic + id

\* a PUBLISH whose QoS was set to 2 was serialised and the second packet,
\* built with QoS 0, has read the identifier
C10_Witness ==
    /\ op = "read"
    /\ pkt[1].type = PUBLISH
    /\ (pkt[1].header.typeAndFlags \div 2) % 4 = 2
    /\ ret = size
    /\ pkt[2].header.typeAndFlags = pkt[1].header.typeAndFlags
    /\ pkt[2].fixedVariableHeader.packetID = 258

\* C5: with the properties registered, a second PUBLISH packet that reads
\* the bytes of a serialised PUBLISH returns the number of bytes written and
\* holds the same flags, topic, packet identifier (when QoS > 0), properties
\* in the same order and payload
C5_PublishRoundTrip ==
    (op \in {"read", "fault"} /\ pkt[1].type = PUBLISH)
        => LET P == pkt[1]
               Q == pkt[2]
           IN  /\ op = "read"
               /\ ret = size
               /\ Q.header.typeAndFlags = P.header.typeAndFlags
               /\ Q.fixedVariableHeader.topicName
                    = P.fixedVariableHeader.topicName
               /\ (P.header.typeAndFlags \div 2) % 4 # 0
                    => Q.fixedVariableHeader.packetID
                         = P.fixedVariableHeader.packetID
               /\ Len(Q.props.head) = Len(P.props.head)
               /\ \A i \in 1..Len(P.props.head) :
                     /\ Q.props.head[i].type = P.props.head[i].type
                     /\ Q.props.head[i].value = P.props.head[i].value
               /\ Q.payload.size = P.payload.size
               /\ Q.payload.data = P.payload.data

\* C9: a DISCONNECT or AUTH frame with remaining length 0 parses to reason
\* Success and no property; for every other frame the parsed reason code is
\* the first byte after the remaining length, so a serialised packet with
\* reason code r parses to reason code r
C9_ReasonCode ==
    /\ op = "readFrame"
          => /\ ret = 2
             /\ pkt[2].fixedVariableHeader.reasonCode = 0
             /\ pkt[2].props.head = <<>>
    /\ (op \in {"read", "fault"} /\ pkt[1].type \in {DISCONNECT, AUTH})
          => /\ op = "read"
             /\ pkt[2].fixedVariableHeader.reasonCode = mem[3]
             /\ pkt[2].fixedVariableHeader.reasonCode
                  = pkt[1].fixedVariableHeader.reasonCode

\* C8: a PUBACK, PUBREC, PUBREL or PUBCOMP packet, fresh or reused, that
\* reads a frame with remaining length 2 consumes the frame and holds the
\* parsed identifier, reason code 0 and no property; with remaining length 3
\* it holds the parsed reason code and no property; with remaining length 4
\* or more it holds the reason code and the properties of the frame
C8_AckShortForms ==
    op \in {"readAck", "fault"}
        => LET Q == pkt[2]
               rl == mem[2]
           IN  /\ op = "readAck"
               /\ ret = size
               /\ Q.fixedVariableHeader.packetID = FromBE16(mem, 2)
               /\ Q.fixedVariableHeader.reasonCode
                    = IF rl = 2 THEN 0 ELSE mem[5]
               /\ Len(Q.props.head) = IF rl > 4 THEN 1 ELSE 0
               /\ rl > 4 => Q.props.head[1] = TypedProperty(PayloadFormat, 1)

--------------------------------------------------------------------------
(* The property list specification: two owning Properties lists in the     *)
(* heap are built, appended to, swapped, copied, serialised and read; the  *)
(* buffer is released before the lists are changed again                   *)

\* the number of copies made of a list
MaxCopies == 1

\* the bytes of raw property lists: three tags, a high bit, small lengths
PropBytes == {0, 1, 2, PayloadFormat, ContentType, SubscriptionID, 128}

\* Properties() twice
PropsNew ==
    /\ op = "init"
    /\ registry # PropertyRegistry_new
    /\ op' = "props"
    /\ pkt' = <<Properties_new, Properties_new>>
    /\ UNCHANGED <<mem, size, ret, hi, num, vb, vbr, ptype, registry, visitors>>

\* Properties(firstProperty) and Properties()
PropsFrom(i) ==
    /\ op = "init"
    /\ registry # PropertyRegistry_new
    /\ op' = "props"
    /\ pkt' = <<Properties_from(PropInputs[i]), Properties_new>>
    /\ UNCHANGED <<mem, size, ret, hi, num, vb, vbr, ptype, registry, visitors>>

\* the first list appends a property
PropsAppend(i) ==
    /\ op \in {"props", "propsCopy"}
    /\ Len(pkt[1].head) + Len(pkt[2].head) < MaxProps
    /\ op' = "props"
    /\ pkt' = [pkt EXCEPT ![1] = Properties_append(@, PropInputs[i])]
    /\ mem' = <<>> /\ size' = 0 /\ ret' = 0 /\ hi' = 0
    /\ UNCHANGED <<num, vb, vbr, ptype, registry, visitors>>

\* the first list swaps with the second
PropsSwap ==
    /\ op \in {"props", "propsCopy"}
    /\ op' = "props"
    /\ pkt' = Properties_swap(pkt[1], pkt[2])
    /\ mem' = <<>> /\ size' = 0 /\ ret' = 0 /\ hi' = 0
    /\ UNCHANGED <<num, vb, vbr, ptype, registry, visitors>>

\* the second list is built again as a copy of the first
PropsCopy ==
    /\ op = "props"
    /\ num < MaxCopies
    /\ op' = "propsCopy"
    /\ pkt' = [pkt EXCEPT ![2] = Properties_copy(pkt[1])]
    /\ mem' = <<>> /\ size' = 0 /\ ret' = 0 /\ hi' = 0
    /\ num' = num + 1
    /\ UNCHANGED <<vb, vbr, ptype, registry, visitors>>

\* getSize() then copyInto(buffer) of the first list
PropsWrite ==
    /\ op \in {"props", "propsCopy"}
    /\ op' = "propsWire"
    /\ ret' = Properties_getSize(pkt[1])
    /\ mem' = Properties_copyInto(pkt[1])
    /\ size' = Len(mem')
    /\ UNCHANGED <<hi, num, vb, vbr, ptype, pkt, registry, visitors>>

\* a buffer that holds a declared length and at least that many bytes
PropsRaw(len, body) ==
    /\ op = "init"
    /\ registry # PropertyRegistry_new
    /\ len <= Len(body)
    /\ op' = "propsRaw"
    /\ pkt' = <<Properties_new, Properties_new>>
    /\ mem' = <<len>> \o body
    /\ size' = Len(mem')
    /\ UNCHANGED <<ret, hi, num, vb, vbr, ptype, registry, visitors>>

\* the second list reads the buffer: readFrom(buffer, size)
PropsReadFrom ==
    /\ op \in {"propsWire", "propsRaw"}
    /\ \E r \in {Properties_readFrom(pkt[2], registry, mem, 0, size)} :
           /\ hi' = r.hi
           /\ IF r.hi > Len(mem)
              THEN op' = "fault" /\ UNCHANGED <<ret, pkt>>
              ELSE /\ op' = "propsRead"
                   /\ ret' = r.ret
                   /\ pkt' = [pkt EXCEPT ![2] = r.v]
    /\ UNCHANGED <<mem, size, num, vb, vbr, ptype, registry, visitors>>

\* checkPropertiesFor(type) of the first list, the second one being empty
PropsCheck(type, nullAlloc) ==
    /\ op = "props"
    /\ pkt[2] = Properties_new
    /\ op' = "propsCheck"
    /\ ptype' = type
    /\ ret' = IF Properties_checkPropertiesFor(pkt[1], type, nullAlloc)
              THEN 1 ELSE 0
    /\ UNCHANGED <<mem, size, hi, num, vb, vbr, pkt, registry, visitors>>

\* check() of a default WillMessage whose willProperties is the first list,
\* the second one being empty
PropsWillCheck(nullAlloc) ==
    /\ op = "props"
    /\ pkt[2] = Properties_new
    /\ op' = "willCheck"
    /\ ptype' = 0
    /\ ret' = IF WillMessage_check([WillMessage_new EXCEPT
                                        !.willProperties = pkt[1]],
                                   TRUE, TRUE, nullAlloc)
              THEN 1 ELSE 0
    /\ UNCHANGED <<mem, size, hi, num, vb, vbr, pkt, registry, visitors>>

\* a PropertiesView reads the buffer, then checkPropertiesFor(type)
PropsViewCheck(type) ==
    /\ op \in {"propsWire", "propsRaw"}
    /\ \E r \in {PropertiesView_readFrom(PropertiesView_new, mem, 0, size)} :
           /\ ~isError(r.ret)
           /\ r.hi <= Len(mem)
           /\ \E c \in {PropertiesView_checkPropertiesFor(r.v, mem, type)} :
                  /\ ret' = IF c.ok THEN 1 ELSE 0
                  /\ num' = c.o
           /\ vb' = r.v.length
           /\ hi' = r.v.buffer
    /\ op' = "viewCheck"
    /\ ptype' = type
    /\ UNCHANGED <<mem, size, vbr, pkt, registry, visitors>>

NextProps ==
    \/ RegisterAll
    \/ PropsNew
    \/ \E i \in 1..Len(PropInputs) : PropsFrom(i)
    \/ \E i \in 1..Len(PropInputs) : PropsAppend(i)
    \/ PropsSwap
    \/ PropsCopy
    \/ PropsWrite
    \/ /\ op = "init"
       /\ \E len \in 0..MaxBody, body \in SeqsUpTo(PropBytes, MaxBody) :
             PropsRaw(len, body)
    \/ PropsReadFrom
    \/ \E type \in 0..15, nullAlloc \in BOOLEAN : PropsCheck(type, nullAlloc)
    \/ \E nullAlloc \in BOOLEAN : PropsWillCheck(nullAlloc)
    \/ \E type \in {CONNECT, PUBLISH, SUBSCRIBE} : PropsViewCheck(type)

SpecProps == Init /\ [][NextProps]_vars

\* C11: decoding a property list whose declared length is fully available
\* consumes the size of the length plus the length on success; when the
\* properties do not end at the declared length or a tag is illegal the
\* result is BadData, never NotEnoughData
C11_ListLength ==
    (op = "propsRead" /\ mem[1] < 128 /\ mem[1] < Len(mem))
        => /\ ~isError(ret) => ret = 1 + mem[1]
           /\ isError(ret) => ret = BadData

\* the sum of getSize() of the properties of a list
RECURSIVE SumOfSizes(_)
SumOfSizes(head) ==
    IF head = <<>> THEN 0
    ELSE Property_getSize(Head(head)) + SumOfSizes(Tail(head))

\* two lists hold the same properties in the same order
SameProperties(a, b) ==
    /\ Len(a) = Len(b)
    /\ \A i \in 1..Len(a) : a[i].type = b[i].type /\ a[i] = b[i]

\* C12: after construction, append, swap, copy construction and a successful
\* readFrom, the length field of a list is the sum of the sizes of the
\* properties it holds, getSize() is the number of bytes copyInto writes,
\* and a copy holds the properties of its source in the same order
C12_LengthIsSum ==
    (op \in {"props", "propsCopy"} \/ (op = "propsRead" /\ ~isError(ret)))
        => /\ \A j \in 1..2 :
                /\ VBInt_toU32(pkt[j].length) = SumOfSizes(pkt[j].head)
                /\ Properties_getSize(pkt[j]) = Len(Properties_copyInto(pkt[j]))
           /\ op = "propsCopy" => SameProperties(pkt[2].head, pkt[1].head)

\* the contexts of the allowed-property matrix in which a tag is legal;
\* context 0 is the Will message
AllowedMatrix(tag) ==
    CASE tag \in {1, 2, 3, 8, 9} -> {PUBLISH, 0}
      [] tag = 35 -> {PUBLISH}
      [] tag = 24 -> {0}
      [] tag = 11 -> {PUBLISH, SUBSCRIBE}
      [] tag = 17 -> {CONNECT, CONNACK, DISCONNECT}
      [] tag \in {21, 22} -> {CONNECT, CONNACK, AUTH}
      [] tag \in {33, 34, 39} -> {CONNECT, CONNACK}
      [] tag \in {23, 25} -> {CONNECT}
      [] tag \in {18, 19, 36, 37, 40, 41, 42, 26} -> {CONNACK}
      [] tag = 28 -> {CONNACK, DISCONNECT}
      [] tag = 31 -> {CONNACK, PUBACK, PUBREC, PUBREL, PUBCOMP, SUBACK,
                      UNSUBACK, DISCONNECT, AUTH}
      [] tag = 38 -> 0..15
      [] OTHER -> {}

\* a list holds, at some position, a property not legal in a context
HoldsIllegal(head, ctx) ==
    \E i \in 1..Len(head) : ctx \notin AllowedMatrix(head[i].type)

\* C13: isAllowedProperty is true exactly for the pairs of the matrix, and
\* checkPropertiesFor(T) and WillMessage::check return false for every list
\* that holds, at any position, a property outside the matrix
C13_AllowedMatrix ==
    op \in {"propsCheck", "willCheck"}
        => /\ \A tag \in 0..255 :
                isAllowedProperty(tag, ptype) <=> ptype \in AllowedMatrix(tag)
           /\ HoldsIllegal(pkt[1].head, ptype) => ret = 0

\* a list of two properties is refused for its last property only
C13_Witness ==
    /\ op = "propsCheck"
    /\ ret = 0
    /\ Len(pkt[1].head) = 2
    /\ ptype \in AllowedMatrix(pkt[1].head[1].type)
    /\ ptype \notin AllowedMatrix(pkt[1].head[2].type)

\* C14: PropertiesView::checkPropertiesFor(T) accepts a borrowed list only if
\* the cursor walked all of its length bytes: a property not allowed in T, a
\* tag that is not legal or a value that cannot be decoded inside the list
\* makes it return false
C14_ViewWalksAll ==
    (op = "viewCheck" /\ ret = 1) => num = VBInt_toU32(vb)

--------------------------------------------------------------------------
(* SpecSub: a chain of subscription entries is built by append, then     *)
(* checked                                                                *)

\* the entries of a chain
MaxTopics == 2

\* option bytes: each QoS, each flag, each RetainHandling, each reserved bit
OptionInputs == {0, 1, 2, 3, 4, 8, 16, 32, 48, 64, 128}

\* append(new SubscribeTopic) with the topic "a" and an option byte (the
\* first entry is the head of the chain)
SubAppend(option) ==
    /\ op \in {"init", "sub"}
    /\ Len(pkt) < MaxTopics
    /\ op' = "sub"
    /\ pkt' = Append(pkt, [topic |-> DynamicString_from(<<97>>),
                           option |-> option])
    /\ UNCHANGED <<mem, size, ret, hi, num, vb, vbr, ptype, registry, visitors>>

\* check() of the head of the chain
SubCheck(nullAlloc) ==
    /\ op = "sub"
    /\ op' = "subCheck"
    /\ ret' = IF SubscribeTopic_check(pkt, nullAlloc) THEN 1 ELSE 0
    /\ UNCHANGED <<mem, size, hi, num, vb, vbr, ptype, pkt, registry, visitors>>

NextSub ==
    \/ \E option \in OptionInputs : SubAppend(option)
    \/ \E nullAlloc \in BOOLEAN : SubCheck(nullAlloc)

SpecSub == Init /\ [][NextSub]_vars

\* C15: SubscribeTopic::check() is false for every chain in which some
\* entry, at any position, has a reserved option bit set, QoS 3 or
\* RetainHandling 3
C15_SubscribeOptions ==
    (op = "subCheck"
     /\ \E i \in 1..Len(pkt) :
            \/ pkt[i].option \div 64 # 0
            \/ pkt[i].option % 4 = 3
            \/ (pkt[i].option \div 16) % 4 = 3)
        => ret = 0

--------------------------------------------------------------------------
(* Properties of the SUBSCRIBE and CONNECT packets *)

\* C16: parsing a complete SUBSCRIBE frame that holds a packet identifier,
\* with or without an empty property list, and no subscription entry
\* returns BadData
C16_SubscribeNoEntry ==
    (/\ op = "readRaw"
     /\ mem[1] = FixedHeaderType_new(SUBSCRIBE)
     /\ mem[2] = 2 \/ (mem[2] = 3 /\ mem[5] = 0)
     /\ size >= 2 + mem[2])
        => ret = BadData

\* C17: parsing a CONNECT frame whose Will flag is set into a freshly
\* constructed CONNECT packet never uses a null will message: it ends with
\* the will message of the frame stored in the packet, or with an error code
C17_WillNotNull ==
    (/\ op \in {"read", "fault"}
     /\ pkt[1].type = CONNECT
     /\ willFlag(pkt[1].payload, pkt))
        => /\ op = "read"
           /\ ~isError(ret) =>
                /\ pkt[2].payload.willMessage # <<>>
                /\ pkt[2].payload.willMessage = pkt[1].payload.willMessage

\* C18: a CONNECT packet whose client identifier has length 0 is accepted:
\* readFrom of its frame succeeds and check() of the payload is true, for
\* the owning and for the borrowing strings and for an identifier the caller
\* made from an empty text (stated for packets with no will, no user name
\* and no password, where nothing but the identifier is checked)
C18_EmptyClientID ==
    /\ (/\ op \in {"checkSet", "checkRead", "checkView"}
        /\ pkt[1].payload.clientID.length = 0
        /\ pkt[1].fixedVariableHeader.flags \in {0, 2})
            => ret = 1
    /\ (/\ op = "read"
        /\ pkt[1].type = CONNECT
        /\ pkt[1].payload.clientID.length = 0
        /\ pkt[1].fixedVariableHeader.flags \in {0, 2})
            => ~isError(ret) /\ pkt[2].payload.clientID.length = 0

\* a serialised CONNECT packet with clean start, no will, no user name, no
\* password, keep-alive 30, no property and the client identifier "a"
MinimalConnect ==
    /\ op = "wire"
    /\ pkt[1].type = CONNECT
    /\ pkt[1].fixedVariableHeader.flags = 2
    /\ pkt[1].fixedVariableHeader.keepAlive = 30
    /\ pkt[1].props.head = <<>>
    /\ pkt[1].payload.clientID.data = <<97>>

\* C19 as stated: the minimal CONNECT packet is written as
\* 10 0D 00 04 4D 51 54 54 05 02 00 1E 00 00 01 61 with remaining length 13
C19_ConnectBytes_0D ==
    MinimalConnect
        => /\ mem = <<16, 13, 0, 4, 77, 81, 84, 84, 5, 2, 0, 30, 0, 0, 1, 97>>
           /\ VBInt_toU32(pkt[1].remLength) = 13

\* C19 amended: the minimal CONNECT packet is written as
\* 10 0E 00 04 4D 51 54 54 05 02 00 1E 00 00 01 61 with remaining length 14,
\* the number of bytes that follow the remaining length
C19_ConnectBytes ==
    MinimalConnect
        => /\ mem = <<16, 14, 0, 4, 77, 81, 84, 84, 5, 2, 0, 30, 0, 0, 1, 97>>
           /\ VBInt_toU32(pkt[1].remLength) = 14
           /\ ret = 16 /\ size = 16

C19_Witness == MinimalConnect /\ pkt[1].payload.willMessage = <<>>

\* a serialised SUBSCRIBE packet with the packet identifier 1, no property
\* and the entries ("a", QoS 1) then ("b/#", QoS 0 with NoLocal)
TwoTopicSubscribe ==
    /\ op = "wire"
    /\ pkt[1].type = SUBSCRIBE
    /\ pkt[1].fixedVariableHeader.packetID = 1
    /\ pkt[1].props.head = <<>>
    /\ pkt[1].payload.topics =
          <<[topic |-> DynamicString_from(<<97>>), option |-> 1],
            [topic |-> DynamicString_from(<<98, 47, 35>>), option |-> 4]>>

\* C20 as stated: the SUBSCRIBE packet with two entries is written as
\* 82 0E 00 01 00 00 01 61 01 00 03 62 2F 23 04
C20_SubscribeBytes_0E ==
    TwoTopicSubscribe
        => mem = <<130, 14, 0, 1, 0, 0, 1, 97, 1, 0, 3, 98, 47, 35, 4>>

\* C20 amended: the SUBSCRIBE packet with two entries is written as
\* 82 0D 00 01 00 00 01 61 01 00 03 62 2F 23 04: the remaining length is 13,
\* and the entries follow in list order, each as its length-prefixed topic
\* followed by its option byte
C20_SubscribeBytes ==
    TwoTopicSubscribe
        => /\ mem = <<130, 13, 0, 1, 0, 0, 1, 97, 1, 0, 3, 98, 47, 35, 4>>
           /\ ret = 15 /\ size = 15

C20_Witness == TwoTopicSubscribe /\ VBInt_toU32(pkt[1].remLength) = 13

--------------------------------------------------------------------------
(* C21 *)

\* the number of bytes the MQTT variable byte integer of n takes
C21_Band(n) ==
    IF n <= 127 THEN 1 ELSE IF n <= 16383 THEN 2
    ELSE IF n <= 2097151 THEN 3 ELSE 4

\* C21: assigning n in 0..268,435,455 to a VBInt gives 1 byte up to 127,
\* 2 up to 16383, 3 up to 2097151 and 4 beyond, bit 7 set on every byte but
\* the last and clear on the last, so check() holds; assigning a larger n
\* fails: getSize() is 0 and check() is false.
C21_AssignSizes ==
    op = "assign" =>
        IF num \in 0..268435455
        THEN /\ vb.size = C21_Band(num)
             /\ VBInt_getSize(vb) = C21_Band(num)
             /\ \A i \in 1..vb.size :
                    HighBit(vb.value[i]) <=> (i < vb.size)
             /\ VBInt_check(vb)
        ELSE /\ VBInt_getSize(vb) = 0
             /\ ~VBInt_check(vb)

\* a four-byte value was assigned
C21_Witness ==
    op = "assign" /\ num = 268435455 /\ vb.size = 4

--------------------------------------------------------------------------
(* Two threads, each iterating its own PropertiesView over its own buffer: *)
(* the calls of getProperty and the reads of the visitor interleave        *)

Threads == {1, 2}

\* the property lists of the buffers, after their length byte
ThreadLists ==
    {<<1, 0>>, <<1, 1>>, <<36, 2, 1, 1>>, <<19, 0, 30>>, <<19, 1, 2, 1, 0>>,
     <<11, 5>>, <<11, 128, 1>>, <<2, 0, 0, 0, 9, 36, 1>>,
     <<3, 0, 1, 97>>, <<3, 0, 0>>}

\* each thread's PropertiesView::readFrom captured its own buffer, that
\* holds the encoded list, and no property is fetched yet
ThreadsStart(a, b) ==
    /\ op = "init"
    /\ op' = "threads"
    /\ mem' = <<Len(a)>> \o a \o <<Len(b)>> \o b
    /\ size' = Len(mem')
    /\ pkt' = <<[view |-> PropertiesView_readFrom(PropertiesView_new, mem',
                              0, Len(a) + 1).v,
                 offset |-> 0, pc |-> "call",
                 kind |-> "none", got |-> <<>>, own |-> <<>>],
                [view |-> PropertiesView_readFrom(PropertiesView_new, mem',
                              Len(a) + 1, Len(b) + 1).v,
                 offset |-> 0, pc |-> "call",
                 kind |-> "none", got |-> <<>>, own |-> <<>>]>>
    /\ UNCHANGED <<ret, hi, num, vb, vbr, ptype, registry, visitors>>

\* thread t calls getProperty(type, offset) on its view: the visitor of the
\* value type accepts the bytes of the property
ThreadGetProperty(t) ==
    /\ op = "threads"
    /\ pkt[t].pc = "call"
    /\ \E g \in {PropertiesView_getProperty(pkt[t].view, mem, pkt[t].offset)} :
       \E k \in {getVisitorForProperty(
                    Read(mem, pkt[t].view.buffer + pkt[t].offset))} :
         /\ visitors' = PropertiesView_visited(pkt[t].view, mem,
                                               pkt[t].offset, visitors)
         /\ IF g.visitor
            THEN pkt' = [pkt EXCEPT ![t] =
                    [@ EXCEPT !.pc = "read", !.kind = k,
                              !.offset = g.offset,
                              !.own = Append(@, visitors'[k])]]
            ELSE pkt' = [pkt EXCEPT ![t] = [@ EXCEPT !.pc = "done"]]
    /\ UNCHANGED <<op, mem, size, ret, hi, num, vb, vbr, ptype, registry>>

\* thread t reads getValue() of the visitor it was handed
ThreadGetValue(t) ==
    /\ op = "threads"
    /\ pkt[t].pc = "read"
    /\ pkt' = [pkt EXCEPT ![t] =
            [@ EXCEPT !.pc = "call",
                      !.got = Append(@, visitors[pkt[t].kind])]]
    /\ UNCHANGED <<op, mem, size, ret, hi, num, vb, vbr, ptype, registry,
                   visitors>>

NextThreads ==
    \/ \E a, b \in ThreadLists : ThreadsStart(a, b)
    \/ \E t \in Threads : ThreadGetProperty(t)
    \/ \E t \in Threads : ThreadGetValue(t)

SpecThreads == Init /\ [][NextThreads]_vars

\* C22: when two threads each iterate their own PropertiesView over their
\* own buffer, under every interleaving of their calls the value a thread
\* reads from the visitor it was handed is the value decoded from its own
\* buffer.
C22_OwnValue ==
    op = "threads" =>
        \A t \in Threads :
            \A i \in 1..Len(pkt[t].got) : pkt[t].got[i] = pkt[t].own[i]

--------------------------------------------------------------------------
(* The registry specification: a property list reads a buffer whether or   *)
(* not the caller has run registerAllProperties before                     *)

\* a buffer that holds a declared length and at least that many bytes
RegRaw(len, body) ==
    /\ op = "init"
    /\ len <= Len(body)
    /\ op' = "regRaw"
    /\ pkt' = <<Properties_new, Properties_new>>
    /\ mem' = <<len>> \o body
    /\ size' = Len(mem')
    /\ UNCHANGED <<ret, hi, num, vb, vbr, ptype, registry, visitors>>

\* the second list reads the buffer: readFrom(buffer, size)
RegReadFrom ==
    /\ op = "regRaw"
    /\ \E r \in {Properties_readFrom(pkt[2], registry, mem, 0, size)} :
           /\ hi' = r.hi
           /\ IF r.hi > Len(mem)
              THEN op' = "fault" /\ UNCHANGED <<ret, pkt>>
              ELSE /\ op' = "regRead"
                   /\ ret' = r.ret
                   /\ pkt' = [pkt EXCEPT ![2] = r.v]
    /\ UNCHANGED <<mem, size, num, vb, vbr, ptype, registry, visitors>>

NextReg ==
    \/ RegisterAll
    \/ /\ op = "init"
       /\ \E len \in 0..MaxBody, body \in SeqsUpTo(PropBytes, MaxBody) :
             RegRaw(len, body)
    \/ RegReadFrom

SpecReg == Init /\ [][NextReg]_vars

\* C23: in every state in which Properties::readFrom can run, also before
\* any call of registerAllProperties, the decoder table maps each of the 27
\* legal tags to its decoder.
C23_TableReady ==
    op = "regRaw" =>
        \A t \in 0..(MaxUsedPropertyType - 1) :
            TypedPropertyKind(t) # "none" => registry[t] = TypedPropertyKind(t)

\* C23: a call of registerAllProperties on the registered table leaves the
\* table as it was.
C23_RegisterOnce ==
    [][registry # PropertyRegistry_new => registry' = registry]_vars

--------------------------------------------------------------------------
(* The header specification of the parsers: a packet of one type reads a   *)
(* frame whose first byte may be the one of another type                   *)

\* the packet types whose fixed variable header and payload hold no string
FlagTypes ==
    {CONNACK, PUBACK, PUBREC, PUBREL, PUBCOMP, SUBACK, UNSUBACK, PINGREQ,
     PINGRESP, DISCONNECT, AUTH}

\* the first bytes: six type nibbles, each with the flag nibbles 0 and 2
FlagFirst ==
    {16 * t + f : t \in {CONNACK, PUBACK, PUBREL, PINGREQ, PINGRESP, AUTH},
                  f \in {0, 2}}

\* two packets of the type `type`, and a frame that holds a first byte, the
\* length of the body and the body
FlagRaw(type, first, body) ==
    /\ op = "init"
    /\ registry # PropertyRegistry_new
    /\ op' = "raw"
    /\ pkt' = <<ControlPacket_new(type, 1), ControlPacket_new(type, 2)>>
    /\ mem' = <<first, Len(body)>> \o body
    /\ size' = Len(mem')
    /\ UNCHANGED <<ret, hi, num, vb, vbr, ptype, registry, visitors>>

\* check() of the second packet after its readFrom succeeded.  readFrom
\* wrote the const member header.typeAndFlags through a const_cast, which
\* has no defined behaviour: check() reads the byte written, or (folded)
\* the value the constructor gave the member.
FlagCheck(folded, nullAlloc) ==
    /\ op = "readRaw"
    /\ ~isError(ret)
    /\ op' = "flagCheck"
    /\ num' = IF ControlPacket_check(pkt[2],
                     IF folded THEN FixedHeaderType_new(pkt[2].type)
                     ELSE pkt[2].header.typeAndFlags,
                     nullAlloc)
              THEN 1 ELSE 0
    /\ UNCHANGED <<mem, size, ret, hi, vb, vbr, ptype, pkt, registry,
                   visitors>>

NextFlag ==
    \/ RegisterAll
    \/ /\ op = "init"
       /\ \E type \in FlagTypes, first \in FlagFirst,
             body \in SeqsUpTo(BodyBytes, MaxBody) : FlagRaw(type, first, body)
    \/ /\ op = "raw"
       /\ \E big \in BOOLEAN : ReadFrom(Len(mem), big)
    \/ \E folded \in BOOLEAN, nullAlloc \in BOOLEAN : FlagCheck(folded, nullAlloc)

SpecFlag == Init /\ [][NextFlag]_vars

\* C24: for every packet type T other than PUBLISH, a frame whose first
\* byte is not (T << 4) | required-flags(T) is not accepted as a packet of
\* type T: readFrom fails, or check() on the parsed packet returns false.
C24_ForeignFirstByte ==
    (op = "flagCheck" /\ mem[1] # FixedHeaderType_new(pkt[2].type)) => num = 0

-----------------------------------------------------------------------------------------------------------------------------------------------
(* The PUBLISH header specification: a header is constructed and its       *)
(* setters are called in any order; ret is typeAndFlags before the last    *)
(* call, num is typeAndFlags after it, size is the argument and pkt lists  *)
(* the calls made on the header                                            *)

\* the arguments of setQoS, a uint8
QoSInputs == {0, 1, 2, 3, 4, 255}

\* the number of setter calls on one header
MaxCalls == 3

\* FixedHeaderType<PUBLISH, 0> header(dup, QoS, retain)
PubNew(dup, QoS, retain) ==
    /\ op = "init"
    /\ op' = "pubNew"
    /\ num' = PublishHeader_new(dup, QoS, retain)
    /\ pkt' = <<"new">>
    /\ UNCHANGED <<mem, size, ret, hi, vb, vbr, ptype, registry, visitors>>

\* FixedHeaderType<PUBLISH, 0> header(flags)
PubNewFlags(flags) ==
    /\ op = "init"
    /\ op' = "pubNew"
    /\ num' = PUBLISH * 16 + flags
    /\ pkt' = <<"flags">>
    /\ UNCHANGED <<mem, size, ret, hi, vb, vbr, ptype, registry, visitors>>

\* header.setQoS(e)
PubSetQoS(e) ==
    /\ op \in {"pubNew", "setQoS", "setDup", "setRetain"}
    /\ Len(pkt) <= MaxCalls
    /\ op' = "setQoS"
    /\ ret' = num
    /\ size' = e
    /\ num' = PublishHeader_setQoS(num, e)
    /\ pkt' = Append(pkt, "setQoS")
    /\ UNCHANGED <<mem, hi, vb, vbr, ptype, registry, visitors>>

\* header.setDup(e)
PubSetDup(e) ==
    /\ op \in {"pubNew", "setQoS", "setDup", "setRetain"}
    /\ Len(pkt) <= MaxCalls
    /\ op' = "setDup"
    /\ ret' = num
    /\ size' = IF e THEN 1 ELSE 0
    /\ num' = PublishHeader_setDup(num, e)
    /\ pkt' = Append(pkt, "setDup")
    /\ UNCHANGED <<mem, hi, vb, vbr, ptype, registry, visitors>>

\* header.setRetain(e)
PubSetRetain(e) ==
    /\ op \in {"pubNew", "setQoS", "setDup", "setRetain"}
    /\ Len(pkt) <= MaxCalls
    /\ op' = "setRetain"
    /\ ret' = num
    /\ size' = IF e THEN 1 ELSE 0
    /\ num' = PublishHeader_setRetain(num, e)
    /\ pkt' = Append(pkt, "setRetain")
    /\ UNCHANGED <<mem, hi, vb, vbr, ptype, registry, visitors>>

NextPub ==
    \/ \E dup \in BOOLEAN, QoS \in QoSInputs, retain \in BOOLEAN :
          PubNew(dup, QoS, retain)
    \/ \E flags \in 0..15 : PubNewFlags(flags)
    \/ \E e \in QoSInputs : PubSetQoS(e)
    \/ \E e \in BOOLEAN : PubSetDup(e)
    \/ \E e \in BOOLEAN : PubSetRetain(e)

SpecPub == Init /\ [][NextPub]_vars

\* C25: on a PUBLISH fixed header, after any sequence of setDup, setRetain
\* and setQoS calls, each call changed only its own bits and left the type
\* nibble and the other flags as they were; getQoS() after setQoS(q) is q
\* for q in 0..2 and 0 for q >= 3, so the QoS bits set through these
\* operations never hold 3.
C25_PublishFlags ==
    /\ op \in {"pubNew", "setQoS", "setDup", "setRetain"} =>
          /\ num \div 16 = PUBLISH
          /\ (\E i \in 1..Len(pkt) : pkt[i] = "setQoS")
                => PublishHeader_getQoS(num) # 3
    /\ op = "setQoS" =>
          /\ PublishHeader_getQoS(num) = (IF size \in 0..2 THEN size ELSE 0)
          /\ PublishHeader_isDup(num) = PublishHeader_isDup(ret)
          /\ PublishHeader_isRetain(num) = PublishHeader_isRetain(ret)
    /\ op = "setDup" =>
          /\ PublishHeader_isDup(num) = (size = 1)
          /\ PublishHeader_getQoS(num) = PublishHeader_getQoS(ret)
          /\ PublishHeader_isRetain(num) = PublishHeader_isRetain(ret)
    /\ op = "setRetain" =>
          /\ PublishHeader_isRetain(num) = (size = 1)
          /\ PublishHeader_getQoS(num) = PublishHeader_getQoS(ret)
          /\ PublishHeader_isDup(num) = PublishHeader_isDup(ret)

\* setQoS(3) was called on a header that held QoS 3, dup and retain
C25_Witness ==
    /\ op = "setQoS" /\ size = 3
    /\ ret = PUBLISH * 16 + 15
    /\ num = PUBLISH * 16 + 9

--------------------------------------------------------------------------
(* C26 *)

\* C26: a successful readFrom of a packet returns exactly 1 + the size of
\* the remaining length + the remaining length and reads every field from
\* inside that frame, also when the buffer holds further bytes after the
\* frame and when the remaining length is smaller than the fixed variable
\* header and the property list that follow it.
C26_FrameExact ==
    (op = "readRaw" /\ ~isError(ret))
        => /\ ret = ControlPacket_getSize(pkt[2])
           /\ hi <= ControlPacket_getSize(pkt[2])

--------------------------------------------------------------------------
(* The string specification: one DynamicString (DynamicBinaryData has the  *)
(* same members and the same readFrom) reads one buffer after the other;   *)
(* pkt is <<the string, the string before the last readFrom>>              *)

\* the bytes of the buffers a string reads
StrBytes == {0, 1, 2, 97}

\* the longest buffer a string reads
MaxStr == 4

\* the number of readFrom calls on one string
MaxReads == 2

\* DynamicString(text)
StrNew(text) ==
    /\ op = "init"
    /\ op' = "str"
    /\ pkt' = <<DynamicString_from(text), DynamicString_from(text)>>
    /\ UNCHANGED <<mem, size, ret, hi, num, vb, vbr, ptype, registry, visitors>>

\* readFrom(buffer, k) of the string on the first k bytes of a buffer
StrReadFrom(buffer, k) ==
    /\ op \in {"str", "strRead"}
    /\ num < MaxReads
    /\ op' = "strRead"
    /\ num' = num + 1
    /\ mem' = buffer
    /\ size' = k
    /\ \E r \in {DynamicString_readFrom(pkt[1], buffer, 0, k)} :
           /\ ret' = r.ret
           /\ hi' = r.hi
           /\ pkt' = <<r.v, pkt[1]>>
    /\ UNCHANGED <<vb, vbr, ptype, registry, visitors>>

NextStr ==
    \/ \E text \in SeqsUpTo({97}, 2) : StrNew(text)
    \/ /\ op \in {"str", "strRead"}
       /\ \E buffer \in SeqsUpTo(StrBytes, MaxStr) :
          \E k \in 0..Len(buffer) : StrReadFrom(buffer, k)

SpecStr == Init /\ [][NextStr]_vars

\* C27: when readFrom of an owning string or binary returns NotEnoughData
\* the object is unchanged, and after any sequence of successful and failed
\* readFrom calls its length is not larger than the size of the data it
\* owns.
C27_StringIntact ==
    op = "strRead" =>
        /\ ret = NotEnoughData => pkt[1] = pkt[2]
        /\ pkt[1].length <= Len(pkt[1].data)

--------------------------------------------------------------------------
(* C28 *)

\* the value of an owned property, strings as their bytes
OwnedValue(p) ==
    CASE p.kind \in {"u8", "u16", "u32"} -> p.value
      [] p.kind \in {"str", "bin"} -> p.value.data
      [] p.kind = "pair" -> <<p.value.key.data, p.value.value.data>>
      [] OTHER -> VBInt_toU32(p.value)

\* the value a visitor of a value type holds, strings as the bytes of the
\* buffer they point at
ViewedValue(kind, value, m) ==
    CASE kind \in {"u8", "u16", "u32"} -> value
      [] kind \in {"str", "bin"} -> ReadN(m, value.data, value.length)
      [] kind = "pair" -> <<ReadN(m, value.key.data, value.key.length),
                            ReadN(m, value.value.data, value.value.length)>>
      [] OTHER -> value

\* the properties getProperty hands out from the offset o on, until it
\* returns no visitor: their tags, their values, and the offset at the end
RECURSIVE C28_Walk(_, _, _)
C28_Walk(x, m, o) ==
    With(PropertiesView_getProperty(x, m, o), LAMBDA g :
      IF ~g.visitor THEN [types |-> <<>>, values |-> <<>>, o |-> o]
      ELSE With(C28_Walk(x, m, g.offset), LAMBDA rest :
        [types |-> <<g.type>> \o rest.types,
         values |-> <<ViewedValue(getVisitorForProperty(g.type),
                         acceptValue(getVisitorForProperty(g.type),
                             MMProp_new[getVisitorForProperty(g.type)], m,
                             x.buffer + o + 1,
                             VBInt_toU32(x.length) - o - 1), m)>>
                     \o rest.values,
         o |-> rest.o]))

\* C28: for every byte string the owning parser and the borrowing parser
\* agree: the owning Properties::readFrom succeeds exactly when
\* PropertiesView::readFrom succeeds and getProperty walks the whole list,
\* with the same consumed byte count, and on success both hold the same
\* sequence of properties with the same values.
C28_SameParse ==
    (op = "propsRaw" /\ size = Len(mem)) =>
        With(Properties_readFrom(Properties_new, registry, mem, 0, size),
             LAMBDA own :
        With(PropertiesView_readFrom(PropertiesView_new, mem, 0, size),
             LAMBDA view :
          IF isError(view.ret) THEN own.ret = view.ret
          ELSE With(C28_Walk(view.v, mem, 0), LAMBDA w :
            /\ ~isError(own.ret) <=> w.o = VBInt_toU32(view.v.length)
            /\ ~isError(own.ret) =>
                  /\ own.ret = view.ret
                  /\ w.types = [i \in 1..Len(own.v.head) |-> own.v.head[i].type]
                  /\ w.values = [i \in 1..Len(own.v.head) |->
                                    OwnedValue(own.v.head[i])])))

--------------------------------------------------------------------------
(* The cursor specification: a PropertiesView captures a list and          *)
(* getProperty is called from offset 0 on until it returns no visitor.     *)
(* pkt is <<the list that was serialised, the view, the tags handed out,   *)
(* the values handed out>>; ret is offset before the last call and num is  *)
(* offset after it                                                         *)

\* the list a caller builds from the properties at the indices ix
RECURSIVE ViewList(_)
ViewList(ix) ==
    IF ix = <<>> THEN Properties_new
    ELSE Properties_append(ViewList(SubSeq(ix, 1, Len(ix) - 1)),
                           PropInputs[ix[Len(ix)]])

\* a buffer holds the bytes of a list a caller built; further bytes may
\* follow the list in the memory
ViewWire(ix, more) ==
    /\ op = "init"
    /\ op' = "viewWire"
    /\ pkt' = <<ViewList(ix), PropertiesView_new, <<>>, <<>>>>
    /\ mem' = Properties_copyInto(ViewList(ix)) \o more
    /\ size' = Len(mem')
    /\ UNCHANGED <<ret, hi, num, vb, vbr, ptype, registry, visitors>>

\* a buffer holds a declared length and at least that many bytes
ViewRaw(len, body) ==
    /\ op = "init"
    /\ len <= Len(body)
    /\ op' = "viewRaw"
    /\ pkt' = <<Properties_new, PropertiesView_new, <<>>, <<>>>>
    /\ mem' = <<len>> \o body
    /\ size' = Len(mem')
    /\ UNCHANGED <<ret, hi, num, vb, vbr, ptype, registry, visitors>>

\* view.readFrom(buffer, size) succeeds; offset = 0
ViewReadFrom ==
    /\ op \in {"viewWire", "viewRaw"}
    /\ \E r \in {PropertiesView_readFrom(pkt[2], mem, 0, size)} :
           /\ ~isError(r.ret)
           /\ pkt' = [pkt EXCEPT ![2] = r.v]
           /\ hi' = r.hi
    /\ op' = "cursor"
    /\ ret' = 0
    /\ num' = 0
    /\ UNCHANGED <<mem, size, vb, vbr, ptype, registry, visitors>>

\* view.getProperty(type, offset): a visitor is returned (op = "got") or
\* not (op = "end"), and the iteration stops at the first call that returns
\* none
ViewGetProperty ==
    /\ op \in {"cursor", "got"}
    /\ \E g \in {PropertiesView_getProperty(pkt[2], mem, num)} :
           /\ op' = IF g.visitor THEN "got" ELSE "end"
           /\ ret' = num
           /\ num' = g.offset
           /\ ptype' = g.type
           /\ visitors' = PropertiesView_visited(pkt[2], mem, num, visitors)
           /\ pkt' = IF ~g.visitor THEN pkt
                     ELSE [pkt EXCEPT
                             ![3] = Append(@, g.type),
                             ![4] = Append(@,
                                 ViewedValue(getVisitorForProperty(g.type),
                                     visitors'[getVisitorForProperty(g.type)],
                                     mem))]
    /\ hi' = PropertiesView_readExtent(pkt[2], mem, num)
    /\ UNCHANGED <<mem, size, vb, vbr, registry>>

\* the bytes that may follow a list in the memory
MaxMore == 1

NextView ==
    \/ /\ op = "init"
       /\ \E ix \in SeqsUpTo(1..Len(PropInputs), MaxProps),
             more \in SeqsUpTo({PayloadFormat}, MaxMore) : ViewWire(ix, more)
    \/ /\ op = "init"
       /\ \E len \in 0..MaxBody, body \in SeqsUpTo(PropBytes, MaxBody) :
             ViewRaw(len, body)
    \/ ViewReadFrom
    \/ ViewGetProperty

SpecView == Init /\ [][NextView]_vars

\* the slice the view captured is the serialisation of the list pkt[1]
C29_WellFormed ==
    Properties_copyInto(pkt[1])
        = SubSeq(mem, 1, pkt[2].buffer + VBInt_toU32(pkt[2].length))

\* C29: iterating a PropertiesView with getProperty from offset 0
\* terminates: every successful call increases offset by at least 2, by the
\* encoded size of the property it returned, and never beyond length; every
\* failed call leaves offset unchanged and returns no visitor; no byte
\* outside the captured slice is read; and over a well-formed list the
\* properties come out in wire order and the iteration ends with offset
\* equal to length.
C29_CursorAdvances ==
    /\ op = "got" =>
          /\ num >= ret + 2
          /\ num <= VBInt_toU32(pkt[2].length)
    /\ op = "end" => num = ret
    /\ op \in {"got", "end"} =>
          \/ hi = 0
          \/ /\ hi > pkt[2].buffer
             /\ hi <= pkt[2].buffer + VBInt_toU32(pkt[2].length)
    /\ (op \in {"got", "end"} /\ C29_WellFormed) =>
          /\ pkt[3] = [i \in 1..Len(pkt[3]) |-> pkt[1].head[i].type]
          /\ pkt[4] = [i \in 1..Len(pkt[4]) |-> OwnedValue(pkt[1].head[i])]
          /\ op = "got" =>
                num - ret = Property_getSize(pkt[1].head[Len(pkt[3])])
          /\ op = "end" => /\ num = VBInt_toU32(pkt[2].length)
                           /\ Len(pkt[3]) = Len(pkt[1].head)

\* the cursor handed out the two properties of a list of two and stopped at
\* the end of the list, with further bytes after it in the buffer
C29_Witness ==
    /\ op = "end"
    /\ Len(pkt[1].head) = 2
    /\ Len(pkt[3]) = 2
    /\ num = VBInt_toU32(pkt[2].length)
    /\ Len(mem) > pkt[2].buffer + num

--------------------------------------------------------------------------
(* The check specification: a list is built by append, or is what a        *)
(* readFrom left behind, and check() is called on it                       *)

\* the properties appended: one that passes its check, a Subscription
\* Identifier above the largest variable byte integer, an empty string
ChkInputs ==
    <<TypedProperty(PayloadFormat, 1),
      TypedProperty(SubscriptionID, VBInt_new(268435456)),
      TypedProperty(ContentType, DynamicString_from(<<>>)),
      TypedProperty(ContentType, DynamicString_from(<<97>>))>>

\* the list a caller builds from the properties at the indices ix
RECURSIVE ChkList(_)
ChkList(ix) ==
    IF ix = <<>> THEN Properties_new
    ELSE Properties_append(ChkList(SubSeq(ix, 1, Len(ix) - 1)),
                           ChkInputs[ix[Len(ix)]])

\* Properties() and append
ChkBuild(ix) ==
    /\ op = "init"
    /\ registry # PropertyRegistry_new
    /\ op' = "chkList"
    /\ pkt' = <<ChkList(ix)>>
    /\ UNCHANGED <<mem, size, ret, hi, num, vb, vbr, ptype, registry, visitors>>

\* Properties() and readFrom(buffer, size), whatever it returns
ChkReadFrom(buffer) ==
    /\ op = "init"
    /\ registry # PropertyRegistry_new
    /\ op' = "chkList"
    /\ mem' = buffer
    /\ size' = Len(buffer)
    /\ \E r \in {Properties_readFrom(Properties_new, registry, buffer, 0,
                                     Len(buffer))} :
           /\ ret' = r.ret
           /\ hi' = r.hi
           /\ pkt' = <<r.v>>
    /\ UNCHANGED <<num, vb, vbr, ptype, registry, visitors>>

\* check() of the list: num is 1 when it returns true; nullAlloc: an
\* allocation of 0 bytes returned null, so that an empty string has no data
ChkCheck(nullAlloc) ==
    /\ op = "chkList"
    /\ op' = "chk"
    /\ num' = IF Properties_check(pkt[1], nullAlloc) THEN 1 ELSE 0
    /\ vbr' = [vbr EXCEPT !.size = IF nullAlloc THEN 1 ELSE 0]
    /\ UNCHANGED <<mem, size, ret, hi, vb, ptype, pkt, registry, visitors>>

NextChk ==
    \/ RegisterAll
    \/ /\ op = "init"
       /\ \E ix \in SeqsUpTo(1..Len(ChkInputs), MaxProps) : ChkBuild(ix)
    \/ /\ op = "init"
       /\ \E buffer \in SeqsUpTo(RawBytes, MaxRaw) : ChkReadFrom(buffer)
    \/ \E nullAlloc \in BOOLEAN : ChkCheck(nullAlloc)

SpecChk == Init /\ [][NextChk]_vars

\* C30: Properties::check() returns false whenever the length VBInt of the
\* list is invalid and whenever any property held in the list fails its own
\* check(), the last property and the only property of a list included.
C30_CheckRefuses ==
    (op = "chk"
       /\ \/ ~VBInt_check(pkt[1].length)
          \/ \E i \in 1..Len(pkt[1].head) :
                ~Property_check(pkt[1].head[i], vbr.size = 1))
        => num = 0

============================================================================
